---- MODULE Spec2Model ----
(***************************************************************************)
(* NamespaceFS (src/src/sdk/namespace_fs.js): an S3-like object namespace  *)
(* projected on a POSIX directory tree.                                    *)
(*                                                                         *)
(* The module holds several specifications over one set of variables:      *)
(*   Spec         the version manager, every request run to completion     *)
(*   SpecPublish  upload_object step by step, with concurrent requests     *)
(*   SpecBoundary requests on keys that lead out of the bucket directory   *)
(*   SpecList     list_objects and list_object_versions on fixed trees     *)
(*   SpecScan     a listing interleaved with uploads and deletes           *)
(*   SpecMeta     xattrs and etags of uploads, deletes, reads and listings *)
(*   SpecMpu      a multipart upload next to uploads and deletes           *)
(*   SpecDirs     uploads and deletes in nested directories                *)
(*   SpecMarker   reads by key and version id next to delete markers       *)
(*   SpecStream   read_object_stream and the copy of multipart parts       *)
(*   SpecCopy     server-side copies between two keys                      *)
(*   SpecDigest   uploads that declare an md5                              *)
(*   SpecRace     the delete of a version next to an upload of the key     *)
(*   SpecRetry    the retry loops, attempts failing at will                *)
(*   SpecArgs     requests with a bad delimiter or a bad key               *)
(*   SpecVid      requests that name well- and ill-formed version ids      *)
(*   SpecCache    listings through the directory cache                     *)
(*   SpecPage     a listing continued page by page                         *)
(*   SpecOpendir  the streaming listing of large directories               *)
(*   SpecAbort    multipart uploads addressed by caller-supplied ids       *)
(*   SpecBatch    delete_multiple_objects over interleaved keys            *)
(* Only the POSIX backend is modelled (fs_context.backend /= 'GPFS').      *)
(***************************************************************************)
EXTENDS Naturals, Integers, Sequences, FiniteSets, TLC

VARIABLES
    versioning,     \* this.versioning of the NamespaceFS object
    fs,             \* the bucket's directory tree (latest files, .versions/, staging)
    procs,          \* requests in flight (SpecPublish): their position and locals
    last            \* the last request that returned: its parameters and outcome

vars == <<versioning, fs, procs, last>>

------------------------------------------------------------------------------
(* Bounds of the model *)

\* files (inodes) ever created in the bucket, staging files and delete markers included
MaxFiles == 3
\* requests in flight at once in SpecPublish
MaxProcs == 2
\* entries of one delete_multiple_objects request
MaxBatch == 2
\* config.NSFS_RENAME_RETRIES: attempts of every retry loop
NSFS_RENAME_RETRIES == 2

------------------------------------------------------------------------------
(* Constants of the program *)

VER_ENABLED == "ENABLED"
VER_SUSPENDED == "SUSPENDED"
VER_DISABLED == "DISABLED"
versioning_status_enum == {VER_ENABLED, VER_SUSPENDED, VER_DISABLED}

\* the literal version id 'null'
NULL_VERSION_ID == <<"null">>
\* an xattr that is not set
NoXattr == <<>>

posix_link_retry_err == "FS::SafeLink ERROR link target doesn't match expected inode and mtime"
posix_unlink_retry_err == "FS::SafeUnlink ERROR unlink target doesn't match expected inode and mtime"

\* object keys: one at the bucket root, one inside a sub-directory
Keys == { [dir |-> "", base |-> "k"], [dir |-> "d/", base |-> "k"] }
Dirs == { key.dir : key \in Keys }
\* the key as the string the request carries
KeyStr(key) == key.dir \o key.base

------------------------------------------------------------------------------
(* Files.  A file is its inode: ino and mtime are its identity, data the   *)
(* bytes (0: none written; n: the bytes of upload n), md the user xattrs   *)
(* (0: none; n: those of upload n), vid / prev / dm the xattrs version_id, *)
(* prev_version_id and delete_marker.                                      *)

NoFile == [ino |-> 0, mtime |-> 0, data |-> 0, md |-> 0, vid |-> NoXattr, prev |-> NoXattr, dm |-> FALSE]

\* 'mtime-' + mtimeNsBigint.toString(36) + '-ino-' + ino.toString(36)
_get_version_id_by_stat(stat) == <<"mtime", stat.mtime, "ino", stat.ino>>

\* variant: the id by stat in every mode
VersionIdByStatAlways(mode, stat) == _get_version_id_by_stat(stat)

\* the version id for a new file under the bucket's mode (only called when not disabled)
_get_version_id_by_mode(mode, stat) ==
    IF mode = VER_ENABLED THEN _get_version_id_by_stat(stat) ELSE NULL_VERSION_ID

\* (stat && stat.xattr[XATTR_VERSION_ID]) || 'null'
_get_version_id_by_xattr(stat) == IF stat.vid = NoXattr THEN NULL_VERSION_ID ELSE stat.vid

\* paths: the key path, a path under <dir>/.versions/, a staging path under <tmpdir>/uploads/
LatestPath(key) == [kind |-> "latest", key |-> key, vid |-> NoXattr]
UploadPath(key, n) == [kind |-> "upload", key |-> key, vid |-> <<n>>]
\* bucket_path/dir/.versions/{basename}_{version_id}
_get_version_path(key, version_id) == [kind |-> "version", key |-> key, vid |-> version_id]

\* the entries of <dir>/.versions/: name <base>_<vid> and the file
VerEntry(path, f) == [base |-> path.key.base, vid |-> path.vid, f |-> f]

\* stat(path): the file, or NoFile for ENOENT
Stat(tree, path) ==
    CASE path.kind = "latest" -> tree.latest[path.key]
      [] path.kind = "version" ->
            LET hit == { e \in tree.vers[path.key.dir] : e.base = path.key.base /\ e.vid = path.vid }
            IN  IF hit = {} THEN NoFile ELSE (CHOOSE e \in hit : TRUE).f
      [] OTHER ->
            LET hit == { f \in tree.uploads : f.ino = path.vid[1] }
            IN  IF hit = {} THEN NoFile ELSE CHOOSE f \in hit : TRUE

\* the tree with path removed (nothing changes when it does not exist)
Remove(tree, path) ==
    CASE path.kind = "latest" -> [tree EXCEPT !.latest[path.key] = NoFile]
      [] path.kind = "version" ->
            [tree EXCEPT !.vers[path.key.dir] =
                { e \in @ : ~(e.base = path.key.base /\ e.vid = path.vid) }]
      [] OTHER -> [tree EXCEPT !.uploads = { f \in @ : f.ino /= path.vid[1] }]

\* the tree with file f at path (replacing what was there)
Place(tree, path, f) ==
    CASE path.kind = "latest" -> [tree EXCEPT !.latest[path.key] = f]
      [] path.kind = "version" ->
            [Remove(tree, path) EXCEPT !.vers[path.key.dir] = @ \cup {VerEntry(path, f)}]
      [] OTHER -> [Remove(tree, path) EXCEPT !.uploads = @ \cup {f}]

\* the result of a call on the tree: the tree after it and 'OK' or the error
Ret(tree, err) == [fs |-> tree, err |-> err]

\* nb_native().fs.rename(src, dst): dst is replaced atomically
Rename(tree, src, dst) ==
    IF Stat(tree, src) = NoFile THEN Ret(tree, "ENOENT")
    ELSE Ret(Remove(Place(tree, dst, Stat(tree, src)), src), "OK")

\* nb_native().fs.unlink(path)
Unlink(tree, path) ==
    IF Stat(tree, path) = NoFile THEN Ret(tree, "ENOENT") ELSE Ret(Remove(tree, path), "OK")

\* nb_native().fs.safe_link(src, dst, mtime, ino): link(2), then the linked file's
\* identity is verified and the link torn down on a mismatch
SafeLinkNative(tree, src, dst, mtime, ino) ==
    LET s == Stat(tree, src)
    IN  IF s = NoFile THEN Ret(tree, "ENOENT")
        ELSE IF Stat(tree, dst) /= NoFile THEN Ret(tree, "EEXIST")
        ELSE IF s.mtime = mtime /\ s.ino = ino THEN Ret(Place(tree, dst, s), "OK")
        ELSE Ret(tree, posix_link_retry_err)

\* nb_native().fs.safe_unlink(path, quarantine, mtime, ino): the file is moved to
\* lost+found, verified, and unlinked there; on a mismatch the occupant stays
SafeUnlinkNative(tree, path, mtime, ino) ==
    LET s == Stat(tree, path)
    IN  IF s = NoFile THEN Ret(tree, "ENOENT")
        ELSE IF s.mtime = mtime /\ s.ino = ino THEN Ret(Remove(tree, path), "OK")
        ELSE Ret(tree, posix_unlink_retry_err)

------------------------------------------------------------------------------
(* Version information *)

NoInfo == [exists |-> FALSE, ino |-> 0, mtime |-> 0, version_id_str |-> NoXattr,
           delete_marker |-> FALSE, prev_version_id |-> NoXattr, path |-> LatestPath(CHOOSE key \in Keys : TRUE)]

\* mtime and ino parsed out of 'mtime-<x>-ino-<y>'; never called with 'null'
_extract_version_info_from_xattr(version_id_str) ==
    [mtime |-> version_id_str[2], ino |-> version_id_str[4]]

\* stat + xattrs of a version; NoInfo when the file does not exist.
\* mtime and ino come from the version_id xattr, or from stat for a null version
_get_version_info(tree, version_path) ==
    LET stat == Stat(tree, version_path)
        version_id_str == _get_version_id_by_xattr(stat)
        ident == IF version_id_str = NULL_VERSION_ID THEN [mtime |-> stat.mtime, ino |-> stat.ino]
                 ELSE _extract_version_info_from_xattr(version_id_str)
    IN  IF stat = NoFile THEN NoInfo
        ELSE [exists |-> TRUE, ino |-> ident.ino, mtime |-> ident.mtime,
              version_id_str |-> version_id_str, delete_marker |-> stat.dm,
              prev_version_id |-> stat.prev, path |-> version_path]

\* the greatest of a non-empty set of numbers
MaxOf(S) == CHOOSE x \in S : \A y \in S : y <= x

\* find_max_version_past: the entry of .versions/ with the greatest mtime among the
\* entries whose name before '_null' / '_mtime-' equals the key (the whole key string)
find_max_version_past(tree, key) ==
    LET arr == { e \in tree.vers[key.dir] : e.base = KeyStr(key) }
        mt(e) == IF e.vid = NULL_VERSION_ID THEN e.f.mtime
                 ELSE _extract_version_info_from_xattr(e.vid).mtime
    IN  IF arr = {} THEN NoInfo
        ELSE LET top == MaxOf({ mt(e) : e \in arr })
                 max_entry == CHOOSE e \in arr : mt(e) = top
             IN  IF top > 0
                 THEN _get_version_info(tree, [kind |-> "version",
                        key |-> [dir |-> key.dir, base |-> max_entry.base], vid |-> max_entry.vid])
                 ELSE NoInfo

get_prev_version_info(tree, key, prev_version_id) ==
    _get_version_info(tree, _get_version_path(key, prev_version_id))

\* safe_unlink_posix: ENOENT is ignored
safe_unlink_posix(tree, to_delete_path, info) ==
    LET r == SafeUnlinkNative(tree, to_delete_path, info.mtime, info.ino)
    IN  IF r.err = "ENOENT" THEN Ret(tree, "OK") ELSE r

safe_link_posix(tree, src_path, dst_path, info) ==
    SafeLinkNative(tree, src_path, dst_path, info.mtime, info.ino)

\* safe_move_posix: safe_link, then safe_unlink of the source
safe_move_posix(tree, src_path, dst_path, info) ==
    LET l == safe_link_posix(tree, src_path, dst_path, info)
    IN  IF l.err /= "OK" THEN l ELSE safe_unlink_posix(l.fs, src_path, info)

\* should_retry_link_unlink on POSIX: only the two identity-mismatch messages
should_retry_link_unlink(err) == err \in {posix_link_retry_err, posix_unlink_retry_err}

\* variant: the null version of .versions/ is left in place
KeepNullVersion(tree, key) == Ret(tree, "OK")

\* _delete_null_version_from_versions_directory: removes <base>_null from .versions/
_delete_null_version_from_versions_directory(tree, key) ==
    LET null_versioned_path == _get_version_path(key, NULL_VERSION_ID)
        info == _get_version_info(tree, null_versioned_path)
    IN  IF info.exists THEN safe_unlink_posix(tree, null_versioned_path, info) ELSE Ret(tree, "OK")

------------------------------------------------------------------------------
(* Requests.  A request is a record: the handler (op), its parameters, its *)
(* position (pc) and the locals the handler keeps across its awaits.  Step *)
(* is the handler's code between two awaits on the shared tree.            *)

NoResult == [err |-> "OK", version_id |-> NoXattr, created_version_id |-> NoXattr,
             created_delete_marker |-> FALSE, deleted_delete_marker |-> FALSE]

NewRequest(op, key, version_id, pc) ==
    [op |-> op, key |-> key, version_id |-> version_id, pc |-> pc, cont |-> "done",
     tmp |-> 0, path |-> LatestPath(key),
     new_ver_info |-> NoInfo, latest_ver_info |-> NoInfo, del_info |-> NoInfo,
     del_latest |-> FALSE, cand |-> NoInfo,
     retries |-> NSFS_RENAME_RETRIES, mretries |-> NSFS_RENAME_RETRIES, res |-> NoResult]

Idle == NewRequest("none", CHOOSE key \in Keys : TRUE, NoXattr, "done")

St(p, tree) == [p |-> p, fs |-> tree]
Go(p, pc) == [p EXCEPT !.pc = pc]

\* an error that reaches the handler's catch: the request returns it
Throw(p, err) == [p EXCEPT !.pc = "done", !.res = [NoResult EXCEPT !.err = err]]

\* the end of a sub-procedure: control returns to the caller
Return(p) == [p EXCEPT !.pc = p.cont]

\* a new file: the next inode, written now
NewFile(tree, data) ==
    [NoFile EXCEPT !.ino = tree.clock + 1, !.mtime = tree.clock + 1, !.data = data]

\* variant: the version id is set, prev_version_id is not
AssignVersionIdOnly(tree, mode, prev_ver_info, new_ver_stat, key, delete_marker) ==
    [new_ver_stat EXCEPT !.vid = _get_version_id_by_mode(mode, new_ver_stat), !.dm = delete_marker]

\* _assign_versions_to_fs_xattr: version_id by mode, prev_version_id of the given
\* previous version or else of the newest entry of .versions/
_assign_versions_to_fs_xattr(tree, mode, prev_ver_info, new_ver_stat, key, delete_marker) ==
    LET prev == IF prev_ver_info.exists THEN prev_ver_info ELSE find_max_version_past(tree, key)
    IN  [new_ver_stat EXCEPT !.vid = _get_version_id_by_mode(mode, new_ver_stat),
                             !.prev = IF prev.exists THEN prev.version_id_str ELSE NoXattr,
                             !.dm = delete_marker]

\* _move_to_dest, top of the loop: rename when disabled, else _move_to_dest_version
MtdEnter(p, mode) ==
    IF mode = VER_DISABLED THEN Go(p, "mtd_rename")
    ELSE [p EXCEPT !.pc = "mv_read", !.retries = NSFS_RENAME_RETRIES]

\* _move_to_dest, catch: only ENOENT with the source still there is tried again
MtdCatch(p, tree, mode, err) ==
    IF p.mretries - 1 <= 0 \/ err /= "ENOENT" \/ Stat(tree, UploadPath(p.key, p.tmp)) = NoFile
    THEN Throw(p, err)
    ELSE MtdEnter([p EXCEPT !.mretries = @ - 1], mode)

\* _move_to_dest_version, catch
MvCatch(p, tree, mode, err) ==
    IF p.retries - 1 <= 0 \/ ~should_retry_link_unlink(err)
    THEN MtdCatch(p, tree, mode, err)
    ELSE [p EXCEPT !.pc = "mv_read", !.retries = @ - 1]

\* the latest is moved to .versions/: enabled, or suspended with a unique version id
MovesLatest(mode, info) ==
    info.exists /\ (mode = VER_ENABLED \/ (mode = VER_SUSPENDED /\ info.version_id_str /= NULL_VERSION_ID))

\* variant: the user xattrs are not written
VersionXattrOnly(tree, mode, stat, key) ==
    IF mode = VER_DISABLED THEN stat
    ELSE _assign_versions_to_fs_xattr(tree, mode, _get_version_info(tree, LatestPath(key)), stat, key, FALSE)

\* _finish_upload: the xattrs replaced on the staging file: the user xattrs and md5 of
\* this upload and, when versioning is enabled or suspended, the version xattrs
_finish_upload_xattr(tree, mode, stat, key) ==
    LET cur_ver_info == _get_version_info(tree, LatestPath(key))
        fs_xattr == [stat EXCEPT !.md = stat.data]
    IN  IF mode = VER_DISABLED THEN fs_xattr
        ELSE _assign_versions_to_fs_xattr(tree, mode, cur_ver_info, fs_xattr, key, FALSE)

\* upload_object, _start_upload, _upload_stream, _finish_upload, _move_to_dest,
\* _move_to_dest_version (a regular key, no copy source)
UploadStep(p, tree, mode) ==
    LET tmp == UploadPath(p.key, p.tmp)
        latest == LatestPath(p.key)
    IN
    CASE p.pc = "up_start" ->
            \* the staging file is created under <tmpdir>/uploads/ and the stream written to it
            LET f == NewFile(tree, tree.clock + 1)
            IN  St([p EXCEPT !.pc = "up_xattr", !.tmp = f.ino],
                   [tree EXCEPT !.clock = @ + 1, !.uploads = @ \cup {f}])
      [] p.pc = "up_xattr" ->
            \* _finish_upload: the xattrs are written on the staging file
            LET fs_xattr == _finish_upload_xattr(tree, mode, Stat(tree, tmp), p.key)
            IN  St(MtdEnter([p EXCEPT !.mretries = NSFS_RENAME_RETRIES,
                                      !.res = [NoResult EXCEPT !.version_id = fs_xattr.vid]], mode),
                   Place(tree, tmp, fs_xattr))
      [] p.pc = "mtd_rename" ->
            LET r == Rename(tree, tmp, latest)
            IN  IF r.err = "OK" THEN St(Go(p, "up_ret"), r.fs)
                ELSE St(MtdCatch(p, tree, mode, r.err), tree)
      [] p.pc = "mv_read" ->
            St([p EXCEPT !.pc = "mv_susp",
                         !.new_ver_info = _get_version_info(tree, tmp),
                         !.latest_ver_info = _get_version_info(tree, latest)], tree)
      [] p.pc = "mv_susp" ->
            IF mode /= VER_SUSPENDED THEN St(Go(p, "mv_link_old"), tree)
            ELSE LET r == IF p.latest_ver_info.exists /\ p.latest_ver_info.version_id_str = NULL_VERSION_ID
                          THEN safe_unlink_posix(tree, latest, p.latest_ver_info)
                          ELSE _delete_null_version_from_versions_directory(tree, p.key)
                 IN  IF r.err = "OK" THEN St(Go(p, "mv_link_old"), r.fs)
                     ELSE St(MvCatch(p, tree, mode, r.err), tree)
      [] p.pc = "mv_link_old" ->
            IF ~MovesLatest(mode, p.latest_ver_info) THEN St(Go(p, "mv_link_new"), tree)
            ELSE LET versioned_path == _get_version_path(p.key, p.latest_ver_info.version_id_str)
                     r == safe_link_posix(tree, latest, versioned_path, p.latest_ver_info)
                 IN  IF r.err = "OK" THEN St(Go(p, "mv_unlink_old"), r.fs)
                     ELSE St(MvCatch(p, tree, mode, r.err), tree)
      [] p.pc = "mv_unlink_old" ->
            LET r == safe_unlink_posix(tree, latest, p.latest_ver_info)
            IN  IF r.err = "OK" THEN St(Go(p, "mv_link_new"), r.fs)
                ELSE St(MvCatch(p, tree, mode, r.err), tree)
      [] p.pc = "mv_link_new" ->
            LET r == safe_link_posix(tree, tmp, latest, p.new_ver_info)
            IN  IF r.err = "OK" THEN St(Go(p, "mv_unlink_new"), r.fs)
                ELSE St(MvCatch(p, tree, mode, r.err), tree)
      [] p.pc = "mv_unlink_new" ->
            \* a failure to delete the staging file is ignored
            LET r == safe_unlink_posix(tree, tmp, p.new_ver_info)
            IN  St(Go(p, "up_ret"), r.fs)
      [] OTHER ->
            \* "up_ret": stat of the key path for the upload info
            IF Stat(tree, latest) = NoFile THEN St(Throw(p, "ENOENT"), tree)
            ELSE St(Go(p, "done"), tree)

UploadPcs == {"up_start", "up_xattr", "mtd_rename", "mv_read", "mv_susp", "mv_link_old",
              "mv_unlink_old", "mv_link_new", "mv_unlink_new", "up_ret"}

\* _find_version_path: the key path without a version id or when the latest carries
\* that id, else the path under .versions/
_find_version_path(tree, key, version_id) ==
    LET cur_ver_info == _get_version_info(tree, LatestPath(key))
    IN  IF version_id = NoXattr THEN LatestPath(key)
        ELSE IF cur_ver_info.exists /\ cur_ver_info.version_id_str = version_id THEN LatestPath(key)
        ELSE _get_version_path(key, version_id)

\* the catch of the loops that retry on an identity mismatch only
\* (_delete_single_object_versioned, _delete_latest_version)
RetryCatch(p, err, again) ==
    IF p.retries - 1 <= 0 \/ ~should_retry_link_unlink(err) THEN Throw(p, err)
    ELSE [p EXCEPT !.pc = again, !.retries = @ - 1]

\* _promote_version_to_latest, catch
PromoteCatch(p, err) ==
    IF p.retries - 1 <= 0 THEN Throw(p, err)
    ELSE IF err = "EEXIST" THEN Return(p)
    ELSE IF err /= "ENOENT" THEN Throw(p, err)
    ELSE [p EXCEPT !.pc = "pr_read", !.retries = @ - 1]

\* _delete_single_object_versioned: p.del_info is the version removed (NoInfo: none)
DeleteVersionStep(p, tree, mode) ==
    IF p.pc = "dsv_find"
    THEN LET file_path == _find_version_path(tree, p.key, p.version_id)
             version_info == _get_version_info(tree, file_path)
         IN  IF ~version_info.exists THEN St(Return([p EXCEPT !.del_info = NoInfo]), tree)
             ELSE St([p EXCEPT !.pc = "dsv_unlink", !.path = file_path, !.del_info = version_info,
                               !.del_latest = (file_path = LatestPath(p.key))], tree)
    ELSE \* "dsv_unlink"
         LET r == IF p.del_latest THEN safe_unlink_posix(tree, p.path, p.del_info)
                  ELSE Unlink(tree, p.path)
         IN  IF r.err = "OK" THEN St(Return(p), r.fs)
             ELSE St(RetryCatch(p, r.err, "dsv_find"), tree)

\* variant: the mtimes of the deleted marker and of the candidate are compared the
\* other way round
PromoteStepReversed(p, tree, mode) ==
    LET latest == LatestPath(p.key)
        deleted_latest == p.del_info.exists /\ p.del_info.path = latest
        prev_version_id == IF deleted_latest THEN p.del_info.prev_version_id ELSE NoXattr
    IN
    CASE p.pc = "pr_read" ->
            LET latest_version_info == _get_version_info(tree, latest)
                by_hint == IF prev_version_id /= NoXattr
                           THEN get_prev_version_info(tree, p.key, prev_version_id) ELSE NoInfo
                max_past_ver_info == IF by_hint.exists THEN by_hint ELSE find_max_version_past(tree, p.key)
            IN  IF latest_version_info.exists THEN St(Return(p), tree)
                ELSE IF ~max_past_ver_info.exists \/ max_past_ver_info.delete_marker THEN St(Return(p), tree)
                ELSE IF p.del_info.exists /\ p.del_info.delete_marker
                        /\ max_past_ver_info.mtime < p.del_info.mtime THEN St(Return(p), tree)
                ELSE St([p EXCEPT !.pc = "pr_link", !.cand = max_past_ver_info], tree)
      [] p.pc = "pr_link" ->
            LET r == safe_link_posix(tree, p.cand.path, latest, p.cand)
            IN  IF r.err = "OK" THEN St(Go(p, "pr_unlink"), r.fs)
                ELSE St(PromoteCatch(p, r.err), tree)
      [] OTHER ->
            \* "pr_unlink"
            LET r == safe_unlink_posix(tree, p.cand.path, p.cand)
            IN  IF r.err = "OK" THEN St(Return(p), r.fs)
                ELSE St(PromoteCatch(p, r.err), tree)

\* _promote_version_to_latest(params, p.del_info, latest path)
PromoteStep(p, tree, mode) ==
    LET latest == LatestPath(p.key)
        deleted_latest == p.del_info.exists /\ p.del_info.path = latest
        prev_version_id == IF deleted_latest THEN p.del_info.prev_version_id ELSE NoXattr
    IN
    CASE p.pc = "pr_read" ->
            LET latest_version_info == _get_version_info(tree, latest)
                by_hint == IF prev_version_id /= NoXattr
                           THEN get_prev_version_info(tree, p.key, prev_version_id) ELSE NoInfo
                max_past_ver_info == IF by_hint.exists THEN by_hint ELSE find_max_version_past(tree, p.key)
            IN  IF latest_version_info.exists THEN St(Return(p), tree)
                ELSE IF ~max_past_ver_info.exists \/ max_past_ver_info.delete_marker THEN St(Return(p), tree)
                ELSE IF p.del_info.exists /\ p.del_info.delete_marker
                        /\ p.del_info.mtime < max_past_ver_info.mtime THEN St(Return(p), tree)
                ELSE St([p EXCEPT !.pc = "pr_link", !.cand = max_past_ver_info], tree)
      [] p.pc = "pr_link" ->
            LET r == safe_link_posix(tree, p.cand.path, latest, p.cand)
            IN  IF r.err = "OK" THEN St(Go(p, "pr_unlink"), r.fs)
                ELSE St(PromoteCatch(p, r.err), tree)
      [] OTHER ->
            \* "pr_unlink"
            LET r == safe_unlink_posix(tree, p.cand.path, p.cand)
            IN  IF r.err = "OK" THEN St(Return(p), r.fs)
                ELSE St(PromoteCatch(p, r.err), tree)

\* variant: the marker's file lacks the delete_marker xattr
MarkerWithoutFlag(tree, mode, deleted_version_info, stat, key) ==
    _assign_versions_to_fs_xattr(tree, mode, deleted_version_info, stat, key, FALSE)

\* _create_delete_marker: the xattrs of the marker.  Its previous version is the
\* deleted latest, or the newest entry of .versions/ when there is none or when a
\* null latest was removed in suspended mode
DeleteMarkerXattr(tree, mode, deleted_version_info, stat, key) ==
    LET prev == IF mode = VER_SUSPENDED /\ deleted_version_info.exists
                   /\ deleted_version_info.version_id_str = NULL_VERSION_ID
                THEN NoInfo ELSE deleted_version_info
    IN  _assign_versions_to_fs_xattr(tree, mode, prev, stat, key, TRUE)

\* _delete_latest_version and _create_delete_marker
DeleteLatestStep(p, tree, mode) ==
    LET latest == LatestPath(p.key)
        info == p.latest_ver_info
        suspended_and_latest_is_not_null == mode = VER_SUSPENDED /\ info.version_id_str /= NULL_VERSION_ID
    IN
    CASE p.pc = "dlv_read" ->
            LET latest_ver_info == _get_version_info(tree, latest)
            IN  St([p EXCEPT !.latest_ver_info = latest_ver_info,
                             !.pc = IF latest_ver_info.exists THEN "dlv_link" ELSE "dm_create"], tree)
      [] p.pc = "dlv_link" ->
            LET versioned_path == _get_version_path(p.key, info.version_id_str)
                r == IF mode = VER_ENABLED \/ suspended_and_latest_is_not_null
                     THEN safe_link_posix(tree, latest, versioned_path, info)
                     ELSE safe_unlink_posix(tree, latest, info)
                next == IF mode = VER_ENABLED \/ suspended_and_latest_is_not_null
                        THEN "dlv_unlink" ELSE "dm_create"
            IN  IF r.err = "OK" THEN St(Go(p, next), r.fs)
                ELSE St(RetryCatch(p, r.err, "dlv_read"), tree)
      [] p.pc = "dlv_unlink" ->
            LET r == safe_unlink_posix(tree, latest, info)
            IN  IF r.err = "OK"
                THEN St(Go(p, IF suspended_and_latest_is_not_null THEN "dlv_null" ELSE "dm_create"), r.fs)
                ELSE St(RetryCatch(p, r.err, "dlv_read"), tree)
      [] p.pc = "dlv_null" ->
            LET r == _delete_null_version_from_versions_directory(tree, p.key)
            IN  IF r.err = "OK" THEN St(Go(p, "dm_create"), r.fs)
                ELSE St(RetryCatch(p, r.err, "dlv_read"), tree)
      [] p.pc = "dm_create" ->
            \* _create_delete_marker: an empty staging file with the version xattrs
            LET stat == NewFile(tree, 0)
                fs_xattr == DeleteMarkerXattr(tree, mode, info, stat, p.key)
            IN  St([p EXCEPT !.pc = "dm_rename", !.tmp = stat.ino],
                   [tree EXCEPT !.clock = @ + 1, !.uploads = @ \cup {fs_xattr}])
      [] OTHER ->
            \* "dm_rename": the marker is renamed to .versions/<base>_<its version id>
            LET tmp == UploadPath(p.key, p.tmp)
                stat == Stat(tree, tmp)
                delete_marker_version_id == IF mode = VER_ENABLED THEN _get_version_id_by_stat(stat)
                                            ELSE NULL_VERSION_ID
                r == Rename(tree, tmp, _get_version_path(p.key, delete_marker_version_id))
            IN  IF r.err = "OK"
                THEN St(Return([p EXCEPT !.res = [NoResult EXCEPT !.created_delete_marker = TRUE,
                                            !.created_version_id = delete_marker_version_id]]), r.fs)
                ELSE St(Throw(p, r.err), tree)

\* delete_object, _delete_single_object, _delete_version_id
DeleteObjectStep(p, tree, mode) ==
    CASE p.pc = "del_start" ->
            LET file_path == _find_version_path(tree, p.key, p.version_id)
            IN  IF mode = VER_DISABLED THEN St([p EXCEPT !.pc = "del_single", !.path = file_path], tree)
                ELSE IF p.version_id /= NoXattr
                THEN St([p EXCEPT !.pc = "dsv_find", !.cont = "dvi_after", !.path = file_path,
                                  !.retries = NSFS_RENAME_RETRIES], tree)
                ELSE St([p EXCEPT !.pc = "dlv_read", !.cont = "done", !.path = file_path,
                                  !.retries = NSFS_RENAME_RETRIES], tree)
      [] p.pc = "del_single" ->
            \* unlink, ENOENT ignored; the request returns {}
            St(Go(p, "done"), Unlink(tree, p.path).fs)
      [] p.pc = "dvi_after" ->
            IF ~p.del_info.exists THEN St(Go(p, "done"), tree)
            ELSE IF p.del_latest \/ p.del_info.delete_marker
            THEN St([p EXCEPT !.pc = "pr_read", !.cont = "dvi_ret", !.retries = NSFS_RENAME_RETRIES], tree)
            ELSE St(Go(p, "dvi_ret"), tree)
      [] OTHER ->
            \* "dvi_ret"
            St([p EXCEPT !.pc = "done",
                         !.res = [NoResult EXCEPT !.deleted_delete_marker = p.del_info.delete_marker,
                                                  !.version_id = p.del_info.version_id_str]], tree)

\* one step of a request: the code up to its next await
Step(p, tree, mode) ==
    CASE p.pc \in UploadPcs -> UploadStep(p, tree, mode)
      [] p.pc \in {"dsv_find", "dsv_unlink"} -> DeleteVersionStep(p, tree, mode)
      [] p.pc \in {"pr_read", "pr_link", "pr_unlink"} -> PromoteStep(p, tree, mode)
      [] p.pc \in {"dlv_read", "dlv_link", "dlv_unlink", "dlv_null", "dm_create", "dm_rename"} ->
            DeleteLatestStep(p, tree, mode)
      [] OTHER -> DeleteObjectStep(p, tree, mode)

\* a request (or a sub-procedure, cont = "halt") run without interleaving
RECURSIVE Run(_, _)
Run(s, mode) ==
    IF s.p.pc \in {"done", "halt"} THEN s
    ELSE Run(Step(s.p, s.fs, mode), mode)

------------------------------------------------------------------------------
(* delete_multiple_objects.  objects is a sequence of [key, version_id];   *)
(* the outcome is the tree, the results in the order the code pushes them, *)
(* and the error thrown out of the request ("OK": none).                   *)

Obj(key, version_id) == [key |-> key, version_id |-> version_id]
ErrResult(err) == [NoResult EXCEPT !.err = err]
SubRequest(key, version_id, pc) ==
    [NewRequest("delete_multiple_objects", key, version_id, pc) EXCEPT !.cont = "halt"]

\* one round of the loop of _delete_objects_versioned: s is the outcome of the
\* deletion of version_id; acc holds the results and the locals
\* deleted_delete_marker, delete_marker_created, latest_ver_info
DeleteVersionResult(acc, version_id, s) ==
    [fs |-> s.fs,
     acc |-> IF s.p.pc = "done"
             THEN [acc EXCEPT !.res = Append(@, ErrResult(s.p.res.err))]
             ELSE IF version_id = NoXattr
             THEN [acc EXCEPT !.res = Append(@, s.p.res), !.delete_marker_created = TRUE]
             ELSE IF ~s.p.del_info.exists
             THEN [acc EXCEPT !.res = Append(@, NoResult)]
             ELSE [acc EXCEPT
                    !.res = Append(@, [NoResult EXCEPT
                                        !.deleted_delete_marker = s.p.del_info.delete_marker]),
                    !.latest_ver_info = IF s.p.del_latest THEN s.p.del_info ELSE @,
                    !.deleted_delete_marker =
                        IF s.p.del_latest THEN @ ELSE (@ \/ s.p.del_info.delete_marker)]]

\* the loop of _delete_objects_versioned over the versions of one key; l is the
\* file system and acc
RECURSIVE DeleteVersionsLoop(_, _, _, _)
DeleteVersionsLoop(l, mode, key, versions) ==
    IF versions = <<>> THEN l
    ELSE DeleteVersionsLoop(
            DeleteVersionResult(l.acc, Head(versions),
                Run(St(SubRequest(key, Head(versions),
                                  IF Head(versions) /= NoXattr THEN "dsv_find" ELSE "dlv_read"),
                       l.fs), mode)),
            mode, key, Tail(versions))

\* the end of _delete_objects_versioned: s is the outcome of the promotion
PromoteResult(l, s) ==
    [fs |-> s.fs, res |-> l.acc.res, err |-> IF s.p.pc = "done" THEN s.p.res.err ELSE "OK"]

\* _delete_objects_versioned after its loop: a version is promoted when the latest
\* or a delete marker was deleted and no delete marker was created
PromoteAfterLoop(l, mode, key) ==
    IF ~((l.acc.latest_ver_info.exists \/ l.acc.deleted_delete_marker) /\ ~l.acc.delete_marker_created)
    THEN [fs |-> l.fs, res |-> l.acc.res, err |-> "OK"]
    ELSE PromoteResult(l,
            Run(St([SubRequest(key, NoXattr, "pr_read") EXCEPT !.del_info = l.acc.latest_ver_info],
                   l.fs), mode))

_delete_objects_versioned(tree, mode, key, versions) ==
    PromoteAfterLoop(
        DeleteVersionsLoop(
            [fs |-> tree,
             acc |-> [res |-> <<>>, deleted_delete_marker |-> FALSE,
                      delete_marker_created |-> FALSE, latest_ver_info |-> NoInfo]],
            mode, key, versions),
        mode, key)

\* the keys of versions_by_key_map in insertion order
RECURSIVE KeysInOrder(_)
KeysInOrder(objects) ==
    IF objects = <<>> THEN <<>>
    ELSE LET rest == KeysInOrder(SelectSeq(Tail(objects), LAMBDA o : o.key /= Head(objects).key))
         IN  <<Head(objects).key>> \o rest

\* versions_by_key_map[key]
RECURSIVE VersionsOf(_, _)
VersionsOf(objects, key) ==
    IF objects = <<>> THEN <<>>
    ELSE (IF Head(objects).key = key THEN <<Head(objects).version_id>> ELSE <<>>)
         \o VersionsOf(Tail(objects), key)

\* the results of one key added to those of the keys before it; an error of a
\* promotion is thrown out of the request
AddKeyResults(r, k) ==
    IF k.err /= "OK" THEN [fs |-> k.fs, res |-> <<>>, err |-> k.err]
    ELSE [fs |-> k.fs, res |-> r.res \o k.res, err |-> "OK"]

\* the loop over versions_by_key_map; r is the file system, the results and the error
RECURSIVE DeleteByKey(_, _, _, _)
DeleteByKey(r, mode, objects, keys) ==
    IF keys = <<>> \/ r.err /= "OK" THEN r
    ELSE DeleteByKey(
            AddKeyResults(r, _delete_objects_versioned(r.fs, mode, Head(keys),
                                                       VersionsOf(objects, Head(keys)))),
            mode, objects, Tail(keys))

\* the loop of the disabled branch: the entry's field 'version' is read, which no entry
\* carries (the entries are {key, version_id}), so no entry is skipped
RECURSIVE DeleteDisabledLoop(_, _, _)
DeleteDisabledLoop(tree, objects, res) ==
    IF objects = <<>> THEN [fs |-> tree, res |-> res, err |-> "OK"]
    ELSE LET file_path == LatestPath(Head(objects).key)
         IN  DeleteDisabledLoop(Unlink(tree, file_path).fs, Tail(objects), Append(res, NoResult))

delete_multiple_objects_run(tree, mode, objects) ==
    IF mode = VER_DISABLED THEN DeleteDisabledLoop(tree, objects, <<>>)
    ELSE DeleteByKey([fs |-> tree, res |-> <<>>, err |-> "OK"], mode, objects, KeysInOrder(objects))

\* read_object_md(key, version_id): the file whose info is returned, NoFile for
\* NoSuchObject (ENOENT, or a delete marker when versioning is not disabled)
read_object_md(tree, mode, key, version_id) ==
    LET stat == Stat(tree, _find_version_path(tree, key, version_id))
    IN  IF mode /= VER_DISABLED /\ stat.dm THEN NoFile ELSE stat

------------------------------------------------------------------------------
(* Spec: the version manager, every request run to completion *)

EmptyTree == [latest |-> [key \in Keys |-> NoFile], vers |-> [dir \in Dirs |-> {}],
              uploads |-> {}, clock |-> 0]

\* the files of a key under .versions/
VersionsOfKey(tree, key) == { e \in tree.vers[key.dir] : e.base = key.base }

\* the version ids a request names for a key: none, 'null', or the id of a stored
\* version of the key
IdsOf(tree, key) ==
    {NoXattr, NULL_VERSION_ID} \cup { e.vid : e \in VersionsOfKey(tree, key) }
    \cup (IF tree.latest[key] = NoFile THEN {} ELSE {_get_version_id_by_xattr(tree.latest[key])})

Objs(tree) == UNION { { Obj(key, v) : v \in IdsOf(tree, key) } : key \in Keys }
Batches(tree) == UNION { [1..n -> Objs(tree)] : n \in 1..MaxBatch }

\* the request that returned last: its parameters, results and error
Returned(op, objects, res, err) == [op |-> op, objects |-> objects, res |-> res, err |-> err]

\* a new NamespaceFS over an empty bucket directory: versioning defaults to DISABLED
Init ==
    /\ versioning = VER_DISABLED
    /\ fs = EmptyTree
    /\ procs = [i \in 1..MaxProcs |-> Idle]
    /\ last = Returned("none", <<>>, <<>>, "OK")

\* set_bucket_versioning: the statuses of PutBucketVersioning are Enabled and Suspended
set_bucket_versioning ==
    \E v \in {VER_ENABLED, VER_SUSPENDED} :
        /\ versioning' = v
        /\ last' = Returned("set_bucket_versioning", <<>>, <<>>, "OK")
        /\ UNCHANGED <<fs, procs>>

upload_object ==
    \E key \in Keys :
        /\ fs.clock < MaxFiles
        /\ \E s \in {Run(St(NewRequest("upload_object", key, NoXattr, "up_start"), fs), versioning)} :
               /\ fs' = s.fs
               /\ last' = Returned("upload_object", <<Obj(key, NoXattr)>>, <<s.p.res>>, s.p.res.err)
        /\ UNCHANGED <<versioning, procs>>

delete_object ==
    \E key \in Keys : \E version_id \in IdsOf(fs, key) :
        /\ (version_id = NoXattr /\ versioning /= VER_DISABLED) => fs.clock < MaxFiles
        /\ \E s \in {Run(St(NewRequest("delete_object", key, version_id, "del_start"), fs), versioning)} :
               /\ fs' = s.fs
               /\ last' = Returned("delete_object", <<Obj(key, version_id)>>, <<s.p.res>>, s.p.res.err)
        /\ UNCHANGED <<versioning, procs>>

delete_multiple_objects ==
    \E objects \in Batches(fs) :
        /\ versioning /= VER_DISABLED =>
             fs.clock + Len(SelectSeq(objects, LAMBDA o : o.version_id = NoXattr)) <= MaxFiles
        /\ \E r \in {delete_multiple_objects_run(fs, versioning, objects)} :
               /\ fs' = r.fs
               /\ last' = Returned("delete_multiple_objects", objects, r.res, r.err)
        /\ UNCHANGED <<versioning, procs>>

Next == set_bucket_versioning \/ upload_object \/ delete_object \/ delete_multiple_objects

Spec == Init /\ [][Next]_vars

------------------------------------------------------------------------------
(* Properties of the version manager (Spec) *)

IsNull(f) == f /= NoFile /\ _get_version_id_by_xattr(f) = NULL_VERSION_ID
NullVersions(tree, key) == { e \in VersionsOfKey(tree, key) : IsNull(e.f) }
NullCount(tree, key) ==
    (IF IsNull(tree.latest[key]) THEN 1 ELSE 0) + Cardinality(NullVersions(tree, key))

\* the request that returned in this step
Did(op) == last'.op = op /\ last'.err = "OK"
KeyOfLast == last'.objects[1].key
IdOfLast == last'.objects[1].version_id

C4_Step ==
    (versioning = VER_ENABLED /\ last'.op = "upload_object" /\ fs.latest[KeyOfLast] /= NoFile) =>
        LET key == KeyOfLast
            L == fs.latest[key]
            new == fs'.latest[key]
        IN  /\ last'.err = "OK"
            /\ Stat(fs', _get_version_path(key, _get_version_id_by_xattr(L))) = L
            /\ new.ino = fs.clock + 1 /\ new.data = new.ino /\ new.md = new.data
            /\ new.vid = _get_version_id_by_stat(new)
            /\ new.prev = _get_version_id_by_xattr(L)
            /\ ~new.dm
            /\ VersionsOfKey(fs, key) \subseteq VersionsOfKey(fs', key)
C5_Step ==
    (versioning = VER_SUSPENDED /\ Did("upload_object")) =>
        LET key == KeyOfLast
            L == fs.latest[key]
            new == fs'.latest[key]
        IN  /\ new.ino = fs.clock + 1
            /\ new.vid = NULL_VERSION_ID
            /\ (L /= NoFile /\ ~IsNull(L)) => Stat(fs', _get_version_path(key, L.vid)) = L
            /\ IsNull(L) => /\ \A e \in fs'.vers[key.dir] : e.f.ino /= L.ino
                            /\ \A k2 \in Keys : fs'.latest[k2].ino /= L.ino
            /\ NullVersions(fs', key) = {}
NewMarkers(key) == { e \in VersionsOfKey(fs', key) : e.f.ino = fs.clock + 1 }

\* the latest is displaced to .versions/ by a delete without version id
Displaced(mode, L) == L /= NoFile /\ (mode = VER_ENABLED \/ ~IsNull(L))

\* C6: delete_object without a version id, enabled or suspended, leaves no file at
\* the key path and creates one delete marker in .versions/ with delete_marker true,
\* id mtime-ino of its own file (enabled) or null (suspended), and prev_version_id the
\* id of the version displaced from the latest path; in enabled mode the displaced
\* version stays readable by its version id
C6_Step ==
    (versioning /= VER_DISABLED /\ last'.op = "delete_object" /\ IdOfLast = NoXattr) =>
        LET key == KeyOfLast
            L == fs.latest[key]
        IN  /\ last'.err = "OK"
            /\ fs'.latest[key] = NoFile
            /\ Cardinality(NewMarkers(key)) = 1
            /\ \A e \in NewMarkers(key) :
                /\ e.f.dm
                /\ e.f.vid = e.vid
                /\ e.vid = IF versioning = VER_ENABLED THEN _get_version_id_by_stat(e.f)
                           ELSE NULL_VERSION_ID
                /\ Displaced(versioning, L) => e.f.prev = _get_version_id_by_xattr(L)
                /\ last'.res[1].created_delete_marker
                /\ last'.res[1].created_version_id = e.vid
            /\ (versioning = VER_ENABLED /\ L /= NoFile) =>
                  read_object_md(fs', versioning, key, _get_version_id_by_xattr(L)) = L
Newest(entries) == CHOOSE e \in entries : \A o \in entries : o.f.mtime <= e.f.mtime

\* C3: in enabled mode, after delete_object removes the latest of a key while a prior
\* version V is in .versions/ and no delete marker is newer than V, read_object_md of
\* the key returns V (without a concurrent writer never NoSuchObject, never an older
\* version)
C3_Step ==
    \A key \in Keys :
        (/\ versioning = VER_ENABLED
         /\ Did("delete_object") /\ KeyOfLast = key
         /\ fs.latest[key] /= NoFile /\ IdOfLast = _get_version_id_by_xattr(fs.latest[key])
         /\ VersionsOfKey(fs, key) /= {}
         /\ ~Newest(VersionsOfKey(fs, key)).f.dm)
        => read_object_md(fs', versioning, key, NoXattr) = Newest(VersionsOfKey(fs, key)).f
C3_PromotionReturnsPrior == [][C3_Step]_vars

\* C7: with versioning disabled a delete request that names a version id is ignored:
\* it returns an empty result and removes or changes no file
C7_Step ==
    (/\ versioning = VER_DISABLED
     /\ last'.op \in {"delete_object", "delete_multiple_objects"}
     /\ \A i \in 1..Len(last'.objects) : last'.objects[i].version_id /= NoXattr)
    => /\ fs' = fs
       /\ last'.err = "OK"
       /\ \A i \in 1..Len(last'.res) : last'.res[i] = NoResult
C7_DisabledDeleteVersionIgnored == [][C7_Step]_vars

------------------------------------------------------------------------------
(* SpecPublish: upload_object requests in flight together, one await at a  *)
(* time.  The versioning mode is changed between requests.                 *)

InFlight(i) == procs[i].pc /= "done"
Quiescent == \A i \in 1..MaxProcs : ~InFlight(i)

publish_set_versioning ==
    /\ Quiescent
    /\ \E v \in {VER_ENABLED, VER_SUSPENDED} : versioning' = v
    /\ UNCHANGED <<fs, procs, last>>

\* a request arrives: upload_object runs up to its first await on the tree
publish_begin ==
    \E i \in 1..MaxProcs, key \in Keys :
        /\ ~InFlight(i)
        /\ fs.clock < MaxFiles
        /\ procs' = [procs EXCEPT ![i] = NewRequest("upload_object", key, NoXattr, "up_start")]
        /\ UNCHANGED <<versioning, fs, last>>

\* a request in flight takes its next step; when it returns, its slot is free again
publish_step ==
    \E i \in 1..MaxProcs :
        /\ InFlight(i)
        /\ LET s == Step(procs[i], fs, versioning)
           IN  /\ fs' = s.fs
               /\ IF s.p.pc = "done"
                  THEN /\ procs' = [procs EXCEPT ![i] = Idle]
                       /\ last' = Returned("upload_object", <<Obj(s.p.key, NoXattr)>>,
                                           <<s.p.res>>, s.p.res.err)
                  ELSE /\ procs' = [procs EXCEPT ![i] = s.p]
                       /\ UNCHANGED last
        /\ UNCHANGED versioning

NextPublish == publish_set_versioning \/ publish_begin \/ publish_step

SpecPublish == Init /\ [][NextPublish]_vars

------------------------------------------------------------------------------
(* Properties of the publish step (SpecPublish) *)

\* what a read of the key without version id observes is a whole object: the bytes
\* of one upload with the xattrs of that same upload
Complete(f) == f /= NoFile => (f.data /= 0 /\ f.md = f.data /\ ~f.dm)

\* a request on the key is in flight
Publishing(ps, key) == \E i \in 1..MaxProcs : ps[i].pc /= "done" /\ ps[i].key = key

\* the request that takes this step removes the latest of its key on its way:
\* _move_to_dest_version unlinks a null latest (suspended) or the displaced latest
Unlinking(key) ==
    \E i \in 1..MaxProcs : /\ procs[i].key = key
                           /\ procs[i].pc \in {"mv_susp", "mv_unlink_old"}
                           /\ procs'[i] /= procs[i]

\* C2 as stated: while upload_object publishes to a key that has a latest, a read of
\* the key observes the complete prior latest or the complete new object, never an
\* absent latest or a mixed state, and a failed publish leaves a latest at the key path
C2_OriginalStep ==
    \A key \in Keys :
        fs.latest[key] /= NoFile => (fs'.latest[key] /= NoFile /\ Complete(fs'.latest[key]))
C2_AmendedStep ==
    \A key \in Keys :
        /\ Complete(fs'.latest[key])
        /\ (fs.latest[key] /= NoFile /\ fs'.latest[key] = NoFile)
              => (versioning /= VER_DISABLED /\ Unlinking(key))
        /\ (Publishing(procs, key) /\ ~Publishing(procs', key)) => fs'.latest[key] /= NoFile
------------------------------------------------------------------------------
(* SpecBoundary: the bucket boundary check.  Paths are strings, modelled as *)
(* sequences of characters, so that startsWith is the prefix test of the    *)
(* code and realpath is a walk over the components.  The bucket is /b; /e   *)
(* and /bb are directories next to it.  Versioning stays DISABLED.          *)

Slash == <<"/">>
bucket_path == <<"/", "b">>
OutsideDir == <<"/", "e">>
SiblingDir == <<"/", "b", "b">>
InnerDir == bucket_path \o Slash \o <<"d">>

\* the directories that exist (no symlink among them)
RealDirs == {bucket_path, InnerDir, OutsideDir, SiblingDir}

\* the symbolic links inside the bucket and their targets
Links == [p \in { bucket_path \o Slash \o <<"l">>, bucket_path \o Slash \o <<"s">>,
                  bucket_path \o Slash \o <<"i">> } |->
            CASE p = bucket_path \o Slash \o <<"l">> -> OutsideDir
              [] p = bucket_path \o Slash \o <<"s">> -> SiblingDir
              [] OTHER -> InnerDir]

FileNames == {<<"f">>, <<"n">>}
\* the places a file can be at
RealFiles == { dir \o Slash \o name : dir \in RealDirs, name \in FileNames }
\* the keys of the requests: at the root, in a directory, and through each link
BoundaryKeys == FileNames \cup { <<c>> \o Slash \o name : c \in {"d", "l", "s", "i"}, name \in FileNames }

\* String.prototype.startsWith
StartsWith(str, prefix) == Len(prefix) <= Len(str) /\ SubSeq(str, 1, Len(prefix)) = prefix

\* the index of the last '/' of a path
LastSlash(path) == CHOOSE i \in 1..Len(path) : path[i] = "/" /\ \A j \in (i+1)..Len(path) : path[j] /= "/"
\* path.dirname and path.basename
Dirname(path) == SubSeq(path, 1, LastSlash(path) - 1)
Basename(path) == SubSeq(path, LastSlash(path) + 1, Len(path))

\* path.join(bucket_path, key)
_get_file_path_str(key) == bucket_path \o Slash \o key

NoPath == <<>>

\* realpath(3): every component that is a symbolic link is replaced by its target;
\* NoPath when the path names nothing (ENOENT)
RECURSIVE realpath(_, _)
realpath(files, path) ==
    IF path \in DOMAIN Links THEN Links[path]
    ELSE IF path \in RealDirs THEN path
    ELSE IF Len(path) = 0 \/ Dirname(path) = NoPath THEN NoPath
    ELSE LET parent == realpath(files, Dirname(path))
             real == parent \o Slash \o Basename(path)
         IN  IF parent = NoPath THEN NoPath
             ELSE IF real \in DOMAIN Links THEN Links[real]
             ELSE IF real \in RealDirs THEN real
             ELSE IF real \in RealFiles /\ files[real] /= 0 THEN real
             ELSE NoPath

\* where the kernel puts or finds the last component of a path: the resolved parent
\* directory and the name (the last component itself is not followed)
PlaceOf(files, path) ==
    LET parent == realpath(files, Dirname(path))
    IN  IF parent = NoPath THEN NoPath ELSE parent \o Slash \o Basename(path)

\* _is_path_in_bucket_boundaries: textual prefix, then the prefix of the real path;
\* on ENOENT the parent directory decides
RECURSIVE _is_path_in_bucket_boundaries(_, _)
_is_path_in_bucket_boundaries(files, entry_path) ==
    IF ~StartsWith(entry_path, bucket_path) THEN FALSE
    ELSE LET full_path == realpath(files, entry_path)
         IN  IF full_path = NoPath THEN _is_path_in_bucket_boundaries(files, Dirname(entry_path))
             ELSE StartsWith(full_path, bucket_path)

\* _check_path_in_bucket_boundaries: 'EACCES' is thrown outside the boundaries
_check_path_in_bucket_boundaries(files, entry_path) ==
    IF _is_path_in_bucket_boundaries(files, entry_path) THEN "OK" ELSE "EACCES"

\* the outcome of a request of SpecBoundary: its key, its error, the bytes read, the
\* keys and common prefixes listed
BoundaryReturned(op, key, err, data, keys) ==
    [op |-> op, key |-> key, err |-> err, data |-> data, keys |-> keys]

\* stat / open of a path: the bytes of the file it resolves to, 0 for ENOENT
ReadFile(files, path) ==
    LET real == realpath(files, path)
    IN  IF real \in RealFiles THEN files[real] ELSE 0

\* process_dir of list_objects for the directory reached as dir_path with key prefix
\* dir_key: nothing when check_access refuses the directory, else its files
ListFiles(files, dir_path, dir_key) ==
    IF _check_path_in_bucket_boundaries(files, dir_path) /= "OK" THEN {}
    ELSE { dir_key \o name : name \in { n \in FileNames : ReadFile(files, dir_path \o Slash \o n) /= 0 } }

\* the entries of the bucket root that are directories or symbolic links to one
RootDirEntries == {<<"d">>, <<"l">>, <<"s">>, <<"i">>}

\* list_objects with an empty prefix: with the delimiter '/' the root's files (its
\* directories are common prefixes), without it the files of every directory
ListKeys(files, delimiter) ==
    ListFiles(files, bucket_path, <<>>)
    \cup (IF delimiter = "/" THEN {}
          ELSE UNION { ListFiles(files, bucket_path \o Slash \o e, e \o Slash) : e \in RootDirEntries })

\* the bucket as the first request finds it: a file f in every directory
InitBoundary ==
    /\ versioning = VER_DISABLED
    /\ fs = [files |-> [path \in RealFiles |-> IF Basename(path) = <<"f">> THEN 1 ELSE 0], clock |-> 1]
    /\ procs = [i \in 1..MaxProcs |-> Idle]
    /\ last = BoundaryReturned("none", <<>>, "OK", 0, {})

bnd_read_object_md ==
    \E key \in BoundaryKeys :
        LET file_path == _get_file_path_str(key)
            err == _check_path_in_bucket_boundaries(fs.files, file_path)
            data == ReadFile(fs.files, file_path)
        IN  /\ last' = IF err /= "OK" THEN BoundaryReturned("read_object_md", key, err, 0, {})
                       ELSE IF data = 0 THEN BoundaryReturned("read_object_md", key, "ENOENT", 0, {})
                       ELSE BoundaryReturned("read_object_md", key, "OK", data, {})
            /\ UNCHANGED <<versioning, fs, procs>>

bnd_read_object_stream ==
    \E key \in BoundaryKeys :
        LET file_path == _get_file_path_str(key)
            err == _check_path_in_bucket_boundaries(fs.files, file_path)
            data == ReadFile(fs.files, file_path)
        IN  /\ last' = IF err /= "OK" THEN BoundaryReturned("read_object_stream", key, err, 0, {})
                       ELSE IF data = 0 THEN BoundaryReturned("read_object_stream", key, "ENOENT", 0, {})
                       ELSE BoundaryReturned("read_object_stream", key, "OK", data, {})
            /\ UNCHANGED <<versioning, fs, procs>>

\* the staging file is renamed to the key path (versioning disabled)
bnd_upload_object ==
    \E key \in BoundaryKeys :
        LET file_path == _get_file_path_str(key)
            err == _check_path_in_bucket_boundaries(fs.files, file_path)
        IN  /\ fs.clock < MaxFiles
            /\ fs' = IF err /= "OK" THEN fs
                     ELSE [files |-> [fs.files EXCEPT ![PlaceOf(fs.files, file_path)] = fs.clock + 1],
                           clock |-> fs.clock + 1]
            /\ last' = BoundaryReturned("upload_object", key, err, 0, {})
            /\ UNCHANGED <<versioning, procs>>

\* _delete_single_object: unlink, ENOENT ignored
bnd_delete_object ==
    \E key \in BoundaryKeys :
        LET file_path == _get_file_path_str(key)
            err == _check_path_in_bucket_boundaries(fs.files, file_path)
        IN  /\ fs' = IF err /= "OK" THEN fs
                     ELSE [fs EXCEPT !.files[PlaceOf(fs.files, file_path)] = 0]
            /\ last' = BoundaryReturned("delete_object", key, err, 0, {})
            /\ UNCHANGED <<versioning, procs>>

bnd_list_objects ==
    \E delimiter \in {"", "/"} :
        /\ last' = BoundaryReturned("list_objects", <<>>, "OK", 0, ListKeys(fs.files, delimiter))
        /\ UNCHANGED <<versioning, fs, procs>>

NextBoundary ==
    bnd_read_object_md \/ bnd_read_object_stream \/ bnd_upload_object \/ bnd_delete_object
    \/ bnd_list_objects

SpecBoundary == InitBoundary /\ [][NextBoundary]_vars

\* a real path lies inside the bucket root directory
InsideBucket(real) == real = bucket_path \/ StartsWith(real, bucket_path \o Slash)

\* the file a key names, after symbolic links are resolved, is outside the bucket
Escapes(files, key) == ~InsideBucket(PlaceOf(files, _get_file_path_str(key)))

\* C8: an object operation on a key whose resolved path is outside the bucket root
\* fails with access denied, a listing returns no entry from there, and nothing
\* outside the bucket root is created, modified or deleted
C8_Step ==
    /\ \A real \in RealFiles : ~InsideBucket(real) => fs'.files[real] = fs.files[real]
    /\ (last'.op \in {"read_object_md", "read_object_stream", "upload_object", "delete_object"}
            /\ Escapes(fs.files, last'.key)) => last'.err = "EACCES"
    /\ last'.op = "list_objects" => \A key \in last'.keys : ~Escapes(fs.files, key)
C8_BucketContainment == [][C8_Step]_vars

\* ---------------------------------------------------------------------------
\* SpecList: the listing engine. Names and keys are strings, modelled as
\* sequences of characters, compared as JavaScript compares strings.
\* ---------------------------------------------------------------------------

MaxLimit == 2
MaxMtime == 2

HIDDEN_VERSIONS_PATH == <<".", "v", "e", "r", "s", "i", "o", "n", "s">>
MtimeTag == <<"_", "m", "t", "i", "m", "e", "-">>
InoTag == <<"-", "i", "n", "o", "-">>
NullSuffix == <<"_", "n", "u", "l", "l">>

\* the UTF-16 code unit of a character
CharCode(c) ==
    CASE c = "+" -> 43 [] c = "-" -> 45 [] c = "." -> 46 [] c = "/" -> 47
      [] c = "1" -> 49 [] c = "2" -> 50 [] c = "3" -> 51 [] c = "_" -> 95
      [] c = "a" -> 97 [] c = "b" -> 98 [] c = "d" -> 100 [] c = "e" -> 101
      [] c = "i" -> 105 [] c = "l" -> 108 [] c = "m" -> 109 [] c = "n" -> 110
      [] c = "o" -> 111 [] c = "r" -> 114 [] c = "s" -> 115 [] c = "t" -> 116
      [] c = "u" -> 117 [] c = "v" -> 118

\* a < b and a <= b on strings
RECURSIVE StrLess(_, _)
StrLess(a, b) ==
    IF b = <<>> THEN FALSE
    ELSE IF a = <<>> THEN TRUE
    ELSE IF a[1] = b[1] THEN StrLess(Tail(a), Tail(b))
    ELSE CharCode(a[1]) < CharCode(b[1])
StrLeq(a, b) == a = b \/ StrLess(a, b)

MinOf(S) == CHOOSE x \in S : \A y \in S : x <= y

\* String.prototype.indexOf / lastIndexOf (0-based, -1 when absent), slice(0, n), slice(n)
IndexOf(str, sub) ==
    LET hits == { i \in 0..(Len(str) - Len(sub)) : SubSeq(str, i + 1, i + Len(sub)) = sub }
    IN  IF hits = {} THEN -1 ELSE MinOf(hits)
LastIndexOf(str, sub) ==
    LET hits == { i \in 0..(Len(str) - Len(sub)) : SubSeq(str, i + 1, i + Len(sub)) = sub }
    IN  IF hits = {} THEN -1 ELSE MaxOf(hits)
SliceTo(str, n) == SubSeq(str, 1, IF n < Len(str) THEN n ELSE Len(str))
SliceFrom(str, n) == SubSeq(str, n + 1, Len(str))

_is_version_object(filename) ==
    LET mtime_substr_index == IndexOf(filename, MtimeTag)
    IN  IF mtime_substr_index < 0 THEN FALSE
        ELSE IndexOf(filename, InoTag) > mtime_substr_index

_get_filename(file_name) ==
    IF _is_version_object(file_name) THEN SliceTo(file_name, IndexOf(file_name, MtimeTag))
    ELSE file_name

\* String.prototype.split('-')
RECURSIVE SplitDash(_)
SplitDash(str) ==
    LET i == IndexOf(str, <<"-">>)
    IN  IF i < 0 THEN <<str>> ELSE <<SliceTo(str, i)>> \o SplitDash(SliceFrom(str, i + 1))

\* size_utils.string_to_bigint(str, 36)
RECURSIVE string_to_bigint(_)
string_to_bigint(str) ==
    IF str = <<>> THEN 0
    ELSE string_to_bigint(SubSeq(str, 1, Len(str) - 1)) * 36 + (CharCode(str[Len(str)]) - 48)

\* Date.now(): later than the mtime of every stored version
DateNow == MaxMtime + 1

_get_mtime_from_filename(filename) ==
    IF ~_is_version_object(filename) THEN DateNow
    ELSE LET file_parts == SplitDash(filename)
         IN  string_to_bigint(file_parts[Len(file_parts) - 2])

sort_entries_by_name(a, b) == StrLess(a.name, b.name)

\* TRUE when first_entry sorts before second_entry
sort_entries_by_name_and_time(first_entry, second_entry) ==
    LET first_entry_name == _get_filename(first_entry.name)
        second_entry_name == _get_filename(second_entry.name)
    IN  IF first_entry_name = second_entry_name
        THEN _get_mtime_from_filename(second_entry.name) < _get_mtime_from_filename(first_entry.name)
        ELSE StrLess(first_entry_name, second_entry_name)

_is_hidden_version_path(dir_key) ==
    LET idx == IndexOf(dir_key, HIDDEN_VERSIONS_PATH)
    IN  idx = 0 \/ (idx > 0 /\ dir_key[idx] = "/")

\* the directories of the bucket: the root and d/
DirKeys == {<<>>, <<"d", "/">>}

Dirent(name, dir) == [name |-> name, dir |-> dir]

\* the name of the version file of base with the mtime and inode n
Digit(n) == CASE n = 1 -> "1" [] n = 2 -> "2" [] OTHER -> "3"
VersionName(base, n) == base \o MtimeTag \o <<Digit(n)>> \o InoTag \o <<Digit(n)>>

\* readdir of a directory: its files, its .versions directory when it holds a
\* version, and its subdirectories
ReadDir(tree, dir_key) ==
    { Dirent(name, FALSE) : name \in tree[dir_key].files }
    \cup (IF tree[dir_key].versions /= {} THEN {Dirent(HIDDEN_VERSIONS_PATH, TRUE)} ELSE {})
    \cup { Dirent(name, TRUE) : name \in tree[dir_key].dirs }

\* readdir of the .versions directory of a directory
ReadVersionsDir(tree, dir_key) == { Dirent(name, FALSE) : name \in tree[dir_key].versions }

\* Array.prototype.sort with sort_entries_by_name, which orders the entries totally
SortByName(entries) ==
    [i \in 1..Cardinality(entries) |->
        CHOOSE e \in entries : Cardinality({ x \in entries : sort_entries_by_name(x, e) }) = i - 1]

\* Array.prototype.sort with sort_entries_by_name_and_time
SortByNameAndTime(entries) ==
    [i \in 1..Cardinality(entries) |->
        CHOOSE e \in entries :
            Cardinality({ x \in entries : sort_entries_by_name_and_time(x, e) }) = i - 1]

\* dir_cache.load: the entries sorted by name
dir_cache(tree, dir_key) == SortByName(ReadDir(tree, dir_key))

\* versions_dir_cache.load: the entries and those of .versions/, sorted by name and
\* time; sorted by name when there is no .versions/
versions_dir_cache(tree, dir_key) ==
    IF tree[dir_key].versions /= {}
    THEN SortByNameAndTime(ReadDir(tree, dir_key) \cup ReadVersionsDir(tree, dir_key))
    ELSE SortByName(ReadDir(tree, dir_key))

\* _.sortedLastIndexBy: a binary search for the last position where value can go
RECURSIVE SortedLastIndexBy(_, _, _, _)
SortedLastIndexBy(keys, value, low, high) ==
    IF low >= high THEN high
    ELSE LET mid == (low + high) \div 2
         IN  IF StrLeq(keys[mid + 1], value) THEN SortedLastIndexBy(keys, value, mid + 1, high)
             ELSE SortedLastIndexBy(keys, value, low, mid)

\* _.findIndex(sorted_entries, {name})
FindIndex(sorted_entries, name) ==
    LET hits == { i \in 1..Len(sorted_entries) : sorted_entries[i].name = name }
    IN  IF hits = {} THEN -1 ELSE MinOf(hits) - 1

_get_entry_key(dir_key, ent, isDir) == dir_key \o ent.name \o (IF isDir THEN Slash ELSE <<>>)

_get_version_entry_key(dir_key, ent) == dir_key \o HIDDEN_VERSIONS_PATH \o Slash \o ent.name

RECURSIVE process_dir(_, _, _, _)

\* st is the walk's results array and its is_truncated flag
insert_entry_to_results_arr(tree, p, st, r) ==
    LET results == st.results
        pos == IF Len(results) > 0 /\ StrLess(r.key, results[Len(results)].key)
                    /\ ~_is_hidden_version_path(r.key)
               THEN SortedLastIndexBy([i \in 1..Len(results) |-> results[i].key], r.key, 0, Len(results))
               ELSE Len(results)
    IN  IF pos >= p.limit THEN [st EXCEPT !.is_truncated = TRUE]
        ELSE IF p.delimiter = <<>> /\ r.common_prefix THEN process_dir(tree, p, st, r.key)
        ELSE LET added == SubSeq(results, 1, pos) \o <<r>> \o SubSeq(results, pos + 1, Len(results))
             IN  IF Len(added) > p.limit
                 THEN [results |-> SubSeq(added, 1, p.limit), is_truncated |-> TRUE]
                 ELSE [st EXCEPT !.results = added]

process_entry(tree, p, st, dir_key, prefix_ent, marker_curr, ent) ==
    IF (~StartsWith(ent.name, prefix_ent) \/ StrLess(ent.name, marker_curr))
        /\ ~_is_hidden_version_path(ent.name)
    THEN st
    ELSE LET isDir == ent.dir
             r == IF p.list_versions /\ _is_version_object(ent.name)
                  THEN [key |-> _get_version_entry_key(dir_key, ent), common_prefix |-> isDir]
                  ELSE [key |-> _get_entry_key(dir_key, ent, isDir), common_prefix |-> isDir]
         IN  insert_entry_to_results_arr(tree, p, st, r)

\* the loop of process_dir over sorted_entries from position i (1-based); the loop
\* ends after an entry (entered) that left the listing truncated
RECURSIVE process_entries(_, _, _, _, _, _, _, _, _)
process_entries(tree, p, st, dir_key, prefix_ent, marker_curr, sorted_entries, i, entered) ==
    IF i > Len(sorted_entries) \/ (entered /\ st.is_truncated) THEN st
    ELSE IF p.list_versions /\ marker_curr /= <<>> /\ _get_filename(sorted_entries[i].name) /= marker_curr
    THEN st
    ELSE process_entries(tree, p,
                         process_entry(tree, p, st, dir_key, prefix_ent, marker_curr, sorted_entries[i]),
                         dir_key, prefix_ent, marker_curr, sorted_entries, i + 1, TRUE)

\* the position after the marker in sorted_entries
marker_index(p, sorted_entries, marker_curr) ==
    IF p.list_versions /\ marker_curr /= <<>> /\ IndexOf(marker_curr, Slash) < 0
    THEN LET start_marker == IF p.version_id_marker /= <<>> THEN p.version_id_marker ELSE marker_curr
         IN  FindIndex(sorted_entries, start_marker) + 1
    ELSE SortedLastIndexBy([i \in 1..Len(sorted_entries) |-> sorted_entries[i].name],
                           marker_curr, 0, Len(sorted_entries))

\* process_dir once sorted_entries is read and the marker is placed at index: the
\* directory the marker lies in is walked first, then the entries after the marker
process_sorted_entries(tree, p, st, dir_key, prefix_ent, marker_curr, sorted_entries, index) ==
    process_entries(tree, p,
        IF index > 0 /\ StartsWith(marker_curr, sorted_entries[index].name)
            /\ dir_key /= sorted_entries[index].name /\ p.delimiter = <<>> /\ sorted_entries[index].dir
        THEN process_dir(tree, p, st, dir_key \o sorted_entries[index].name \o Slash)
        ELSE st,
        dir_key, prefix_ent, marker_curr, sorted_entries, index + 1, FALSE)

\* process_dir once the part of the marker that applies to the directory is known
process_marked_dir(tree, p, st, dir_key, marker_curr, sorted_entries) ==
    process_sorted_entries(tree, p, st, dir_key, SliceFrom(p.prefix, Len(dir_key)), marker_curr,
                           sorted_entries, marker_index(p, sorted_entries, marker_curr))

\* a directory that carries dir_content is an object under its own key: it goes
\* to the results before its entries, when it lies after the marker and there is
\* no delimiter or it is the prefix
insert_dir_object(tree, p, st, dir_key) ==
    IF tree[dir_key].dir_content /\ StrLess(p.key_marker, dir_key)
        /\ (p.delimiter = <<>> \/ dir_key = p.prefix)
    THEN insert_entry_to_results_arr(tree, p, st, [key |-> dir_key, common_prefix |-> FALSE])
    ELSE st

process_dir(tree, p, st, dir_key) ==
    IF _is_hidden_version_path(dir_key) THEN st
    ELSE IF ~StartsWith(dir_key, SliceTo(p.prefix, Len(dir_key))) THEN st
    ELSE IF StrLess(dir_key, SliceTo(p.key_marker, Len(dir_key))) THEN st
    ELSE IF dir_key \notin DirKeys THEN st
    ELSE process_marked_dir(tree, p, insert_dir_object(tree, p, st, dir_key), dir_key,
            IF StrLess(SliceTo(p.key_marker, Len(dir_key)), dir_key) THEN <<>>
            ELSE SliceFrom(p.key_marker, Len(dir_key)),
            IF p.list_versions THEN versions_dir_cache(tree, dir_key) ELSE dir_cache(tree, dir_key))

DefaultLimit == 1000
NoMarker == <<>>
NoStat == -1

\* stat of bucket_path/key: the mtime of the file there, NoStat for ENOENT. The
\* latest of a key is its newest file; a null version is older than the others.
StatKey(tree, key) ==
    LET latest == { d \in DirKeys : StartsWith(key, d) /\ SliceFrom(key, Len(d)) \in tree[d].files }
        vdir(d) == d \o HIDDEN_VERSIONS_PATH \o Slash
        version == { d \in DirKeys : StartsWith(key, vdir(d))
                                      /\ SliceFrom(key, Len(vdir(d))) \in tree[d].versions }
    IN  IF latest /= {} THEN MaxMtime + 1
        ELSE IF key /= <<>> /\ key \in DirKeys
        THEN (IF SliceTo(key, Len(key) - 1) \in tree[<<>>].dirs THEN MaxMtime + 1 ELSE NoStat)
        ELSE IF version = {} THEN NoStat
        ELSE IF _is_version_object(key) THEN _get_mtime_from_filename(key)
        ELSE 0

ListReturned(op, p, err, objects, common_prefixes, is_truncated, next_marker, next_version_id_marker) ==
    [op |-> op, params |-> p, err |-> err, objects |-> objects, common_prefixes |-> common_prefixes,
     is_truncated |-> is_truncated, next_marker |-> next_marker,
     next_version_id_marker |-> next_version_id_marker]

\* the key an entry is reported under: '.versions/' and the version suffix removed
ReportedKey(key) ==
    IF _is_hidden_version_path(key)
    THEN LET hidden == HIDDEN_VERSIONS_PATH \o Slash
             idx == IndexOf(key, hidden)
         IN  _get_filename(IF idx < 0 THEN key ELSE SliceTo(key, idx) \o SliceFrom(key, idx + Len(hidden)))
    ELSE key

\* the results that are common prefixes, or those that are not, in their order
SelectResults(results, common_prefix) ==
    LET F[i \in 0..Len(results)] ==
            IF i = 0 THEN <<>>
            ELSE IF results[i].common_prefix = common_prefix THEN Append(F[i - 1], results[i])
            ELSE F[i - 1]
    IN  F[Len(results)]

\* the marker a truncated listing returns: the last result, for a version its file
\* name without the version suffix
next_markers(p, final) ==
    IF p.list_versions /\ _is_version_object(final.key)
    THEN [next_marker |-> _get_filename(SliceFrom(final.key, LastIndexOf(final.key, Slash) + 1)),
          next_version_id_marker |-> SliceFrom(final.key, LastIndexOf(final.key, Slash) + 1)]
    ELSE [next_marker |-> final.key, next_version_id_marker |-> NoMarker]

\* the reply of _list_objects for the results found and their stats (NoStat: ENOENT)
list_reply(p, op, st, found, prefixes, stats) ==
    IF \E i \in 1..Len(found) : stats[i] = NoStat
    THEN ListReturned(op, p, "ENOENT", <<>>, <<>>, FALSE, NoMarker, NoMarker)
    ELSE ListReturned(op, p, "OK",
            [i \in 1..Len(found) |-> [key |-> ReportedKey(found[i].key), create_time |-> stats[i]]],
            [i \in 1..Len(prefixes) |-> prefixes[i].key],
            st.is_truncated,
            IF ~st.is_truncated \/ st.results = <<>> THEN NoMarker
            ELSE next_markers(p, st.results[Len(st.results)]).next_marker,
            IF ~st.is_truncated \/ st.results = <<>> THEN NoMarker
            ELSE next_markers(p, st.results[Len(st.results)]).next_version_id_marker)

\* the stat of every object found
list_stats(tree, p, op, st, found) ==
    list_reply(p, op, st, found, SelectResults(st.results, TRUE),
               [i \in 1..Len(found) |-> StatKey(tree, found[i].key)])

list_results(tree, p, op, st) == list_stats(tree, p, op, st, SelectResults(st.results, FALSE))

\* _list_objects: the walk from the directory of the prefix, the stat of every
\* object found, and the assembly of the reply
_list_objects(tree, p, op) ==
    list_results(tree, p, op,
        process_dir(tree, p, [results |-> <<>>, is_truncated |-> FALSE],
                    SliceTo(p.prefix, LastIndexOf(p.prefix, Slash) + 1)))

\* the bucket contents the listings are taken of
RootNames == {<<"+">>, <<"-">>, <<"a">>}
RootVersions == {VersionName(<<"+">>, 1), VersionName(<<"a">>, 1), <<"a">> \o NullSuffix}
SubNames == {<<"a">>}
SubVersions == { VersionName(<<"a">>, n) : n \in 1..MaxMtime }
ListTrees ==
    { [d \in DirKeys |-> IF d = <<>>
                         THEN [files |-> rf, versions |-> rv, dirs |-> {<<"d">>}, dir_content |-> FALSE]
                         ELSE [files |-> sf, versions |-> sv, dirs |-> {}, dir_content |-> FALSE]] :
        rf \in SUBSET RootNames, rv \in SUBSET RootVersions,
        sf \in SUBSET SubNames, sv \in SUBSET SubVersions }

\* the requests: prefix, delimiter, markers and limit
ListMarkers(list_versions) ==
    { <<NoMarker, NoMarker>>, <<(<<"a">>), NoMarker>>, <<(<<"d", "/", "a">>), NoMarker>> }
    \cup (IF list_versions THEN { <<(<<"a">>), VersionName(<<"a">>, 1)>> } ELSE {})
ListParams(list_versions) ==
    { [list_versions |-> list_versions, prefix |-> prefix, delimiter |-> delimiter,
       key_marker |-> m[1], version_id_marker |-> m[2], limit |-> limit] :
        prefix \in {<<>>, <<"a">>, <<"d", "/">>}, delimiter \in {<<>>, Slash},
        m \in ListMarkers(list_versions), limit \in (1..MaxLimit) \cup {DefaultLimit} }

\* a listing request that has been received and not yet served
ListRequest(p) ==
    [op |-> IF p.list_versions THEN "list_object_versions" ELSE "list_objects",
     params |-> p, pc |-> "list"]

InitList ==
    /\ versioning = VER_ENABLED
    /\ fs \in ListTrees
    /\ procs \in { [i \in 1..MaxProcs |-> IF i = 1 THEN ListRequest(p) ELSE Idle] :
                     p \in ListParams(FALSE) \cup ListParams(TRUE) }
    /\ last = [op |-> "none"]

list_objects ==
    \E i \in 1..MaxProcs :
        /\ procs[i].op = "list_objects"
        /\ last' = _list_objects(fs, procs[i].params, "list_objects")
        /\ procs' = [procs EXCEPT ![i] = Idle]
        /\ UNCHANGED <<versioning, fs>>

list_object_versions ==
    \E i \in 1..MaxProcs :
        /\ procs[i].op = "list_object_versions"
        /\ last' = _list_objects(fs, procs[i].params, "list_object_versions")
        /\ procs' = [procs EXCEPT ![i] = Idle]
        /\ UNCHANGED <<versioning, fs>>

NextList == list_objects \/ list_object_versions

SpecList == InitList /\ [][NextList]_vars

\* ---------------------------------------------------------------------------
\* Properties of the listings (SpecList)
\* ---------------------------------------------------------------------------

Listed == last.op \in {"list_objects", "list_object_versions"} /\ last.err = "OK"

\* a sequence of strings is in ascending order
Ascending(keys) == \A i \in 1..(Len(keys) - 1) : StrLeq(keys[i], keys[i + 1])

ObjectKeys == [i \in 1..Len(last.objects) |-> last.objects[i].key]

\* C9: in every list_objects and list_object_versions reply the objects are in
\* ascending key order, the common prefixes are in ascending order, and when
\* next_marker is set every returned key and common prefix is <= next_marker
C9_ListSorted ==
    Listed =>
        /\ Ascending(ObjectKeys)
        /\ Ascending(last.common_prefixes)
        /\ last.next_marker /= NoMarker =>
            /\ \A i \in 1..Len(ObjectKeys) : StrLeq(ObjectKeys[i], last.next_marker)
            /\ \A i \in 1..Len(last.common_prefixes) : StrLeq(last.common_prefixes[i], last.next_marker)

\* the logical name of a stored file: the name without '_null' or the version suffix
LogicalName(name) ==
    IF Len(name) > Len(NullSuffix) /\ SliceFrom(name, Len(name) - Len(NullSuffix)) = NullSuffix
    THEN SliceTo(name, Len(name) - Len(NullSuffix))
    ELSE IF IndexOf(name, MtimeTag) >= 0 THEN SliceTo(name, IndexOf(name, MtimeTag))
    ELSE name

\* the stored entries of the bucket: the logical key and the mtime of every latest
\* and of every file in a .versions/ directory
StoredEntries ==
    UNION { { [key |-> d \o name, create_time |-> StatKey(fs, d \o name)] : name \in fs[d].files }
            \cup { [key |-> d \o LogicalName(name),
                    create_time |-> StatKey(fs, d \o HIDDEN_VERSIONS_PATH \o Slash \o name)] :
                    name \in fs[d].versions } : d \in DirKeys }

\* a request for the whole bucket: no prefix, delimiter or marker, the default limit
Unrestricted(p) ==
    p.prefix = <<>> /\ p.delimiter = <<>> /\ p.key_marker = NoMarker /\ p.limit = DefaultLimit

\* C10: in every list_object_versions reply the entries of one key (its latest, its
\* mtime-ino versions, its null version or delete marker in .versions/) are reported
\* under that logical key, consecutively, newest first by mtime
C10_VersionsOfKey ==
    last.op = "list_object_versions" =>
        /\ Unrestricted(last.params) =>
            /\ last.err = "OK"
            /\ \A e \in StoredEntries : \E i \in 1..Len(last.objects) : last.objects[i] = e
        /\ \A i \in 1..Len(last.objects) : \A j \in (i + 1)..Len(last.objects) :
            last.objects[i].key = last.objects[j].key =>
                /\ \A m \in i..j : last.objects[m].key = last.objects[i].key
                /\ last.objects[i].create_time >= last.objects[j].create_time

\* ---------------------------------------------------------------------------
\* SpecScan: list_objects running next to uploads and deletes. Versioning is
\* disabled. Every directory has an inode and an mtime; creating, replacing or
\* removing an entry of a directory sets its mtime to the time of the change,
\* writing its xattrs does not. The directory cache keeps, per directory, the
\* stat and the entries read when it was loaded. The listing reads the root, then
\* d/, then stats what it found; writers run between these steps.
\* ---------------------------------------------------------------------------

MaxClock == 3

\* a directory that does not exist, and the cache slot that holds no item
Gone == [files |-> {}, versions |-> {}, dirs |-> {}, dir_content |-> FALSE, ino |-> 0, mtime |-> 0]
NoItem == [Gone EXCEPT !.ino = -1]

ScanRoot == <<>>
ScanDir == <<"d", "/">>
ScanKeys == {<<"a">>, ScanDir, <<"d", "/", "b">>}

DirExists(tree, dir_key) == dir_key = ScanRoot \/ <<"d">> \in tree[ScanRoot].dirs

\* the keys that are objects: the files, and d/ when the directory carries dir_content
ExistingKeys(tree) ==
    { ScanRoot \o name : name \in tree[ScanRoot].files }
    \cup (IF DirExists(tree, ScanDir)
          THEN { ScanDir \o name : name \in tree[ScanDir].files }
               \cup (IF tree[ScanDir].dir_content THEN {ScanDir} ELSE {})
          ELSE {})

\* dir_cache.validate: the cached stat has the inode and the mtime of the directory
dir_cache_validate(item, dir) == item.ino = dir.ino /\ item.mtime = dir.mtime

\* mkdir of d at time now, when it does not exist (_make_path_dirs)
MakeDir(tree, now) ==
    IF DirExists(tree, ScanDir) THEN tree
    ELSE [tree EXCEPT ![ScanRoot].dirs = {<<"d">>}, ![ScanRoot].mtime = now,
                      ![ScanDir] = [Gone EXCEPT !.ino = now, !.mtime = now]]

\* _delete_path_dirs from d/: rmdir of d succeeds when d is empty, and the walk ends
\* at the bucket root
_delete_path_dirs_scan(tree, now) ==
    IF DirExists(tree, ScanDir) /\ tree[ScanDir].files = {}
    THEN [tree EXCEPT ![ScanRoot].dirs = {}, ![ScanRoot].mtime = now, ![ScanDir] = Gone]
    ELSE tree

\* upload_object(key): a file is renamed into its directory; the directory object
\* d/ of size 0 only gets dir_content on the directory (_create_empty_dir_content)
ScanUpload(tree, key, now) ==
    IF key = <<"a">>
    THEN [tree EXCEPT ![ScanRoot].files = @ \cup {<<"a">>}, ![ScanRoot].mtime = now]
    ELSE IF key = ScanDir
    THEN [MakeDir(tree, now) EXCEPT ![ScanDir].dir_content = TRUE]
    ELSE [MakeDir(tree, now) EXCEPT ![ScanDir].files = @ \cup {<<"b">>}, ![ScanDir].mtime = now]

\* unlink of the file of key: ENOENT is ignored
ScanUnlink(tree, key, now) ==
    IF key = <<"a">> /\ <<"a">> \in tree[ScanRoot].files
    THEN [tree EXCEPT ![ScanRoot].files = {}, ![ScanRoot].mtime = now]
    ELSE IF key = <<"d", "/", "b">> /\ DirExists(tree, ScanDir) /\ <<"b">> \in tree[ScanDir].files
    THEN [tree EXCEPT ![ScanDir].files = {}, ![ScanDir].mtime = now]
    ELSE tree

\* _clear_user_xattr of the directory of a directory object that still exists
ClearDirXattr(tree, key) ==
    IF key = ScanDir /\ DirExists(tree, ScanDir) THEN [tree EXCEPT ![ScanDir].dir_content = FALSE]
    ELSE tree

\* _delete_single_object: unlink, removal of the empty parents, xattr clearing
_delete_single_object_scan(tree, key, now) ==
    ClearDirXattr(IF key = <<"a">> THEN ScanUnlink(tree, key, now)
                  ELSE _delete_path_dirs_scan(ScanUnlink(tree, key, now), now), key)

ScanMarkers == {NoMarker, <<"a">>, <<"d", "/", "a">>}
ScanParams ==
    { [list_versions |-> FALSE, prefix |-> <<>>, delimiter |-> <<>>, key_marker |-> m,
       version_id_marker |-> NoMarker, limit |-> DefaultLimit] : m \in ScanMarkers }

ScanTrees ==
    { [d \in DirKeys |->
         IF d = ScanRoot THEN [Gone EXCEPT !.files = rf, !.dirs = IF sub THEN {<<"d">>} ELSE {}]
         ELSE IF sub THEN [Gone EXCEPT !.files = sf, !.dir_content = dc]
         ELSE Gone] :
        rf \in SUBSET {<<"a">>}, sf \in SUBSET {<<"b">>}, dc \in BOOLEAN, sub \in BOOLEAN }

InitScan ==
    /\ versioning = VER_DISABLED
    /\ fs \in { [tree |-> t, cache |-> [d \in DirKeys |-> NoItem], clock |-> 0] :
                t \in { x \in ScanTrees : DirExists(x, ScanDir) =>
                                            x[ScanDir].files /= {} \/ x[ScanDir].dir_content } }
    /\ procs = [i \in 1..MaxProcs |-> Idle]
    /\ last = [op |-> "none"]

\* the listing in flight records which keys existed at some moment since it began
Seen(ps, tree) ==
    [i \in 1..MaxProcs |->
        IF ps[i].op = "list_objects" THEN [ps[i] EXCEPT !.seen = @ \cup ExistingKeys(tree)]
        ELSE ps[i]]

scan_upload_object ==
    \E key \in ScanKeys :
        /\ fs.clock < MaxClock
        /\ fs' = [fs EXCEPT !.tree = ScanUpload(fs.tree, key, fs.clock + 1), !.clock = fs.clock + 1]
        /\ procs' = Seen(procs, ScanUpload(fs.tree, key, fs.clock + 1))
        /\ UNCHANGED <<versioning, last>>

scan_delete_object ==
    \E key \in ScanKeys :
        /\ fs.clock < MaxClock
        /\ fs' = [fs EXCEPT !.tree = _delete_single_object_scan(fs.tree, key, fs.clock + 1),
                            !.clock = fs.clock + 1]
        /\ UNCHANGED <<versioning, procs, last>>

\* list_objects is received: _load_bucket stats the bucket directory
scan_begin ==
    \E p \in ScanParams :
        /\ procs[1] = Idle
        /\ procs' = [procs EXCEPT ![1] =
                        [op |-> "list_objects", params |-> p, pc |-> "open", dir |-> ScanRoot,
                         view |-> [d \in DirKeys |-> Gone], stat |-> Gone,
                         seen |-> ExistingKeys(fs.tree)]]
        /\ UNCHANGED <<versioning, fs, last>>

\* the step after the directory dir is read: d/ after the root when the root lists
\* d, then the stat of the results
AfterDir(proc, dir, item) ==
    [proc EXCEPT !.view[dir] = item,
                 !.pc = IF dir = ScanRoot /\ item.dirs /= {} THEN "open" ELSE "stat",
                 !.dir = IF dir = ScanRoot /\ item.dirs /= {} THEN ScanDir ELSE dir]

\* process_dir up to the stat of get_with_cache: check_access of a directory that
\* is gone drops its cache item and skips it; an item that validates is used; else
\* load stats the directory and goes on to read it
scan_open ==
    \E i \in 1..MaxProcs :
        /\ procs[i].op = "list_objects" /\ procs[i].pc = "open"
        /\ IF ~DirExists(fs.tree, procs[i].dir)
           THEN /\ fs' = [fs EXCEPT !.cache[procs[i].dir] = NoItem]
                /\ procs' = [procs EXCEPT ![i] = AfterDir(procs[i], procs[i].dir, Gone)]
           ELSE IF dir_cache_validate(fs.cache[procs[i].dir], fs.tree[procs[i].dir])
           THEN /\ procs' = [procs EXCEPT ![i] = AfterDir(procs[i], procs[i].dir, fs.cache[procs[i].dir])]
                /\ UNCHANGED fs
           ELSE /\ procs' = [procs EXCEPT ![i].pc = "readdir", ![i].stat = fs.tree[procs[i].dir]]
                /\ UNCHANGED fs
        /\ UNCHANGED <<versioning, last>>

\* dir_cache.load after its stat: readdir; the item is the stat taken before and the
\* entries read now. ENOENT leaves the directory out of the listing.
scan_readdir ==
    \E i \in 1..MaxProcs :
        /\ procs[i].op = "list_objects" /\ procs[i].pc = "readdir"
        /\ IF ~DirExists(fs.tree, procs[i].dir)
           THEN /\ procs' = [procs EXCEPT ![i] = AfterDir(procs[i], procs[i].dir, Gone)]
                /\ UNCHANGED fs
           ELSE \E item \in { [procs[i].stat EXCEPT !.files = fs.tree[procs[i].dir].files,
                                                    !.dirs = fs.tree[procs[i].dir].dirs] } :
                /\ fs' = [fs EXCEPT !.cache[procs[i].dir] = item]
                /\ procs' = [procs EXCEPT ![i] = AfterDir(procs[i], procs[i].dir, item)]
        /\ UNCHANGED <<versioning, last>>

\* the walk over what was read, the stat of every object found, and the reply
scan_reply ==
    \E i \in 1..MaxProcs :
        /\ procs[i].op = "list_objects" /\ procs[i].pc = "stat"
        /\ last' = [seen |-> procs[i].seen] @@
                   list_results(fs.tree, procs[i].params, "list_objects",
                                process_dir(procs[i].view, procs[i].params,
                                            [results |-> <<>>, is_truncated |-> FALSE], ScanRoot))
        /\ procs' = [procs EXCEPT ![i] = Idle]
        /\ UNCHANGED <<versioning, fs>>

NextScan ==
    \/ scan_upload_object
    \/ scan_delete_object
    \/ scan_begin
    \/ scan_open
    \/ scan_readdir
    \/ scan_reply

SpecScan == InitScan /\ [][NextScan]_vars

\* ---------------------------------------------------------------------------
\* Properties of a listing next to writers (SpecScan)
\* ---------------------------------------------------------------------------

\* C11: the reply of a list_objects call that ran next to uploads and deletes holds
\* no key twice, and every key it holds existed at some moment during the call
C11_ScanConsistent ==
    (last.op = "list_objects" /\ last.err = "OK") =>
        /\ \A i \in 1..Len(last.objects) : \A j \in 1..Len(last.objects) :
            last.objects[i].key = last.objects[j].key => i = j
        /\ \A i \in 1..Len(last.objects) : last.objects[i].key \in last.seen

\* ---------------------------------------------------------------------------
\* Object metadata, etags, directory objects and multipart uploads (SpecMeta,
\* SpecMpu).  Requests run to completion, one at a time.  A string (an xattr key
\* or value, an etag, a key) is a sequence of tokens; '-' and '/' are tokens of
\* their own, so that a prefix, a trailing slash and a dash can be told.  An xattr
\* map is a function from keys to values.
\* ---------------------------------------------------------------------------

\* files and directories created in one run of SpecMeta
MaxWrites == 2

XATTR_USER_PREFIX == <<"user.">>
XATTR_CONTENT_TYPE == XATTR_USER_PREFIX \o <<"content_type">>
XATTR_MD5_KEY == XATTR_USER_PREFIX \o <<"content_md5">>
XATTR_VERSION_ID == XATTR_USER_PREFIX \o <<"version_id">>
XATTR_PREV_VERSION_ID == XATTR_USER_PREFIX \o <<"prev_version_id">>
XATTR_DELETE_MARKER == XATTR_USER_PREFIX \o <<"delete_marker">>
XATTR_DIR_CONTENT == XATTR_USER_PREFIX \o <<"dir_content">>

INTERNAL_XATTR == {XATTR_CONTENT_TYPE, XATTR_DIR_CONTENT, XATTR_PREV_VERSION_ID, XATTR_DELETE_MARKER}

\* variant: every reserved key is internal
AllReservedXattr ==
    {XATTR_CONTENT_TYPE, XATTR_DIR_CONTENT, XATTR_PREV_VERSION_ID, XATTR_DELETE_MARKER,
     XATTR_MD5_KEY, XATTR_VERSION_ID}

\* the map without entries (also stands for an fs_xattr that is undefined)
EmptyXattr == [k \in {} |-> <<>>]
\* { [key]: val }
Only(key, val) == [k \in {key} |-> val]
\* Object.assign(a, b)
ObjectAssign(a, b) == [k \in DOMAIN a \cup DOMAIN b |-> IF k \in DOMAIN b THEN b[k] ELSE a[k]]

\* Number.prototype.toString of a small number
NumStr(n) ==
    CASE n = 0 -> "0" [] n = 1 -> "1" [] n = 2 -> "2" [] n = 3 -> "3" [] n = 4 -> "4"
      [] n = 5 -> "5" [] n = 6 -> "6" [] n = 7 -> "7" [] n = 8 -> "8" [] OTHER -> "9"

\* the public name of an fs xattr key: the key without 'user.', or '' for a key that
\* is internal or does not start with 'user.'
PublicKey(internal, key) ==
    IF StartsWith(key, XATTR_USER_PREFIX) /\ key \notin internal
    THEN SliceFrom(key, Len(XATTR_USER_PREFIX)) ELSE <<>>

\* _.mapKeys(fs_xattr, PublicKey) followed by delete xattr['']
MapPublic(internal, fs_xattr) ==
    [k \in { PublicKey(internal, key) : key \in DOMAIN fs_xattr } \ {<<>>} |->
        fs_xattr[CHOOSE key \in DOMAIN fs_xattr : PublicKey(internal, key) = k]]

\* variant: no key is internal
ToXattrUnfiltered(fs_xattr) == MapPublic({}, fs_xattr)

\* to_xattr: the public map of the xattrs of a file
to_xattr(fs_xattr) == MapPublic(INTERNAL_XATTR, fs_xattr)

\* variant: the keys are stored as given
ToFsXattrNoPrefix(xattr) == xattr

\* to_fs_xattr: every key gets the prefix 'user.'
to_fs_xattr(xattr) ==
    [k \in { XATTR_USER_PREFIX \o key : key \in DOMAIN xattr } |->
        xattr[SliceFrom(k, Len(XATTR_USER_PREFIX))]]

\* a path that holds nothing, and a file created at time now
NoEnt == [ino |-> 0, mtime |-> 0, data |-> <<>>, xattr |-> EmptyXattr]
Created(now, data, xattr) == [ino |-> now, mtime |-> now, data |-> data, xattr |-> xattr]

\* the md5 of a string of bytes, in hex: no dash in it, and one per string
MD5Hex(bytes) == <<"md5(">> \o bytes \o <<")">>

\* Buffer.from(etag, 'hex'): the bytes of a hex string; decoding stops at the first
\* character that is not a hex digit, which for an etag by stat is the first
HexBytes(etag) == IF etag /= <<>> /\ etag[1] = "md5(" THEN etag ELSE <<>>

\* variant: the identity by stat written without dashes
VersionIdNoDash(stat) == <<"mtime", NumStr(stat.mtime), "ino", NumStr(stat.ino)>>

\* _get_version_id_by_stat as the string it is:
\* 'mtime-' + mtimeNsBigint.toString(36) + '-ino-' + ino.toString(36)
version_id_by_stat_str(stat) ==
    <<"mtime", "-", NumStr(stat.mtime), "-", "ino", "-", NumStr(stat.ino)>>

\* _etag_from_fs_xattr: the content_md5 xattr, '' when there is none
_etag_from_fs_xattr(xattr) == IF XATTR_MD5_KEY \in DOMAIN xattr THEN xattr[XATTR_MD5_KEY] ELSE <<>>

\* _get_etag: the md5 when the file carries one, else the identity by stat
_get_etag(stat) ==
    IF _etag_from_fs_xattr(stat.xattr) /= <<>> THEN _etag_from_fs_xattr(stat.xattr)
    ELSE version_id_by_stat_str(stat)

\* the keys: a file at the bucket root and a directory object
MetaFileKey == <<"a">>
MetaDirKey == <<"d", "/">>
MetaKeys == {MetaFileKey, MetaDirKey}

\* key.endsWith('/'): _get_file_path appends .folder, and _is_directory_content
\* holds of that path and key
IsDirKey(key) == key /= <<>> /\ key[Len(key)] = "/"
\* path.basename(key)
KeyBase(key) == IF IsDirKey(key) THEN SliceTo(key, Len(key) - 1) ELSE key

\* The tree of SpecMeta and SpecMpu: latest[key] is the file at _get_file_path(key)
\* (for d/ the file d/.folder), dir the directory d (child: it holds another entry),
\* vers the files of <bucket>/.versions/ (named <basename of key>_<vid>), mpu the
\* scratch directory of the multipart upload.
NoDir == [exists |-> FALSE, ino |-> 0, mtime |-> 0, xattr |-> EmptyXattr, child |-> FALSE]
PartNums == {1, 2}
NoMpu == [exists |-> FALSE, key |-> MetaFileKey, xattr |-> EmptyXattr,
          parts |-> [n \in PartNums |-> NoEnt]]
EmptyMeta == [clock |-> 0, access_mode |-> "READ_WRITE", latest |-> [key \in MetaKeys |-> NoEnt],
              dir |-> NoDir, vers |-> {}, mpu |-> NoMpu]

\* the next instant; inodes are numbered by the instant of their creation
Tick(tree) == [tree EXCEPT !.clock = @ + 1]

\* stat of the directory d
DirStat(tree) == [ino |-> tree.dir.ino, mtime |-> tree.dir.mtime, data |-> <<>>, xattr |-> tree.dir.xattr]

\* stat of _get_file_md_path(key): the directory for a directory key
MdStat(tree, key) ==
    IF ~IsDirKey(key) THEN tree.latest[key]
    ELSE IF tree.dir.exists THEN DirStat(tree) ELSE NoEnt

\* _make_path_dirs(_get_file_path(key)): d is created when the key is d/
make_path_dirs(tree, key) ==
    IF ~IsDirKey(key) \/ tree.dir.exists THEN tree
    ELSE [Tick(tree) EXCEPT !.dir = [NoDir EXCEPT !.exists = TRUE, !.ino = tree.clock + 1,
                                                  !.mtime = tree.clock + 1]]

\* set_fs_xattr_op(dir, set, 'user.'): the user.* xattrs are cleared, then set written
set_dir_xattr(tree, set) == [tree EXCEPT !.dir.xattr = set]

\* _assign_dir_content_to_xattr: dir_content = size || 0 joins the xattrs of the directory
_assign_dir_content_to_xattr(tree, fs_xattr, size) ==
    set_dir_xattr(tree, ObjectAssign(fs_xattr, Only(XATTR_DIR_CONTENT, <<NumStr(IF size > 0 THEN size ELSE 0)>>)))

\* _assign_md5_to_fs_xattr
_assign_md5_to_fs_xattr(md5_digest, fs_xattr) == ObjectAssign(fs_xattr, Only(XATTR_MD5_KEY, md5_digest))

\* _get_version_info of a file of this tree: the version id of its xattr or 'null'
\* (mtime and ino are those of the file: an id by stat is made of them)
meta_version_info(f) ==
    [exists |-> f /= NoEnt, mtime |-> f.mtime, ino |-> f.ino,
     version_id_str |-> IF XATTR_VERSION_ID \in DOMAIN f.xattr THEN f.xattr[XATTR_VERSION_ID]
                        ELSE NULL_VERSION_ID]

\* the file named <basename of key>_<version_id> in .versions/, or NoEnt
VersionFile(tree, key, version_id) ==
    LET hit == { e \in tree.vers : KeyBase(e.key) = KeyBase(key) /\ e.vid = version_id }
    IN  IF hit = {} THEN NoEnt ELSE (CHOOSE e \in hit : TRUE).f

\* find_max_version_past on this tree: the newest entry of .versions/ whose name
\* before the version id equals the key
meta_find_max_version_past(tree, key) ==
    LET arr == { e \in tree.vers : KeyBase(e.key) = key }
    IN  IF arr = {} THEN meta_version_info(NoEnt)
        ELSE meta_version_info((CHOOSE e \in arr : \A o \in arr : o.f.mtime <= e.f.mtime).f)

\* _assign_versions_to_fs_xattr on an xattr map
assign_versions_to_map(tree, mode, prev_ver_info, new_ver_stat, key, fs_xattr, delete_marker) ==
    LET prev == IF prev_ver_info.exists THEN prev_ver_info ELSE meta_find_max_version_past(tree, key)
        version_id == IF mode = VER_ENABLED THEN version_id_by_stat_str(new_ver_stat) ELSE NULL_VERSION_ID
    IN  ObjectAssign(ObjectAssign(ObjectAssign(fs_xattr, Only(XATTR_VERSION_ID, version_id)),
                IF prev.exists THEN Only(XATTR_PREV_VERSION_ID, prev.version_id_str) ELSE EmptyXattr),
            IF delete_marker THEN Only(XATTR_DELETE_MARKER, <<"true">>) ELSE EmptyXattr)

\* the outcome of a step on the tree
Out(tree, err) == [fs |-> tree, err |-> err]

\* unlink of <basename of key>_null in .versions/
\* (_delete_null_version_from_versions_directory)
remove_null_version(tree, key) ==
    [tree EXCEPT !.vers = { e \in @ : ~(KeyBase(e.key) = KeyBase(key) /\ e.vid = NULL_VERSION_ID) }]

\* safe_move of the latest of key to its name in .versions/: link fails with EEXIST
\* when the name is taken
move_latest_to_versions(tree, key) ==
    LET info == meta_version_info(tree.latest[key])
    IN  IF VersionFile(tree, key, info.version_id_str) /= NoEnt THEN Out(tree, "EEXIST")
        ELSE Out([tree EXCEPT !.vers = @ \cup {[key |-> key, vid |-> info.version_id_str,
                                               f |-> tree.latest[key]]},
                              !.latest[key] = NoEnt], "OK")

\* what _move_to_dest_version and _delete_latest_version do to the latest of key:
\* suspended and null: unlinked; suspended otherwise: the null version of .versions/
\* is removed; enabled, or suspended with an id: the latest moves to .versions/
displace_latest(tree, mode, key, put) ==
    LET info == meta_version_info(tree.latest[key])
        null == info.exists /\ info.version_id_str = NULL_VERSION_ID
    IN  IF mode = VER_SUSPENDED /\ null THEN Out([tree EXCEPT !.latest[key] = NoEnt], "OK")
        ELSE IF ~info.exists
        THEN Out(IF mode = VER_SUSPENDED /\ put THEN remove_null_version(tree, key) ELSE tree, "OK")
        ELSE IF mode = VER_SUSPENDED /\ put
        THEN move_latest_to_versions(remove_null_version(tree, key), key)
        ELSE IF mode = VER_SUSPENDED
        THEN (IF move_latest_to_versions(tree, key).err /= "OK" THEN move_latest_to_versions(tree, key)
              ELSE Out(remove_null_version(move_latest_to_versions(tree, key).fs, key), "OK"))
        ELSE move_latest_to_versions(tree, key)

\* a request's parameters: xattr the public map, content_type and md5_b64 '' when
\* absent (md5_b64 is written as the hex digest it decodes to), size -1 when the
\* request declares none, data the body, md5_enabled what NSFS_CALCULATE_MD5 and
\* force_md5_etag amount to
Undeclared == -1
PutParams(key, xattr, content_type, md5_b64, size, data, md5_enabled) ==
    [key |-> key, xattr |-> xattr, content_type |-> content_type, md5_b64 |-> md5_b64,
     size |-> size, data |-> data, md5_enabled |-> md5_enabled]

\* what an upload returns: the tree, 'OK' or the error, and _get_upload_info
Uploaded(tree, err, etag, version_id) ==
    [fs |-> tree, err |-> err, etag |-> etag, version_id |-> version_id]
\* fs_xattr && fs_xattr[XATTR_VERSION_ID]
VersionIdOf(fs_xattr) ==
    IF XATTR_VERSION_ID \in DOMAIN fs_xattr THEN fs_xattr[XATTR_VERSION_ID] ELSE <<>>

\* empty_dir_content_flow: a directory key and a declared size of 0
empty_dir_content_flow(p) == IsDirKey(p.key) /\ p.size = 0

\* the tree after _create_empty_dir_content: the directory carries the xattrs and
\* dir_content 0, and .folder is unlinked
empty_dir_tree(tree, p) ==
    [_assign_dir_content_to_xattr(make_path_dirs(tree, p.key), to_fs_xattr(p.xattr), p.size)
        EXCEPT !.latest[p.key] = NoEnt]

\* _create_empty_dir_content
_create_empty_dir_content(tree, p) ==
    Uploaded(empty_dir_tree(tree, p), "OK", _get_etag(DirStat(empty_dir_tree(tree, p))),
             VersionIdOf(to_fs_xattr(p.xattr)))

\* _finish_upload, the xattrs: those of the request, content_type, the md5 when a
\* digest was computed and, for a versioned bucket and no part, the version xattrs
finish_upload_xattr(tree, mode, p, stat, digest, part_upload) ==
    LET given == IF p.content_type /= <<>>
                 THEN ObjectAssign(to_fs_xattr(p.xattr), Only(XATTR_CONTENT_TYPE, p.content_type))
                 ELSE to_fs_xattr(p.xattr)
        summed == IF digest /= <<>> THEN _assign_md5_to_fs_xattr(digest, given) ELSE given
    IN  IF ~part_upload /\ mode /= VER_DISABLED
        THEN assign_versions_to_map(tree, mode, meta_version_info(tree.latest[p.key]), stat,
                                    p.key, summed, FALSE)
        ELSE summed

\* _move_to_dest: the staged file becomes the latest of the key
_move_to_dest(tree, mode, key, file) ==
    IF mode = VER_DISABLED THEN Out([make_path_dirs(tree, key) EXCEPT !.latest[key] = file], "OK")
    ELSE IF displace_latest(make_path_dirs(tree, key), mode, key, TRUE).err /= "OK"
    THEN displace_latest(make_path_dirs(tree, key), mode, key, TRUE)
    ELSE Out([displace_latest(make_path_dirs(tree, key), mode, key, TRUE).fs
                EXCEPT !.latest[key] = file], "OK")

\* _finish_upload after the xattrs are known (no part upload): replacexattr on the
\* staged file unless the key is a directory, _move_to_dest, dir_content = stat.size
\* on the directory, and the upload info of the published path
publish_upload(tree, mode, p, stat, fs_xattr) ==
    LET file == [stat EXCEPT !.xattr = IF IsDirKey(p.key) THEN EmptyXattr ELSE fs_xattr]
        moved == _move_to_dest(tree, mode, p.key, file)
        done == IF IsDirKey(p.key) THEN _assign_dir_content_to_xattr(moved.fs, fs_xattr, Len(stat.data))
                ELSE moved.fs
    IN  IF moved.err /= "OK" THEN Uploaded(moved.fs, moved.err, <<>>, <<>>)
        ELSE Uploaded(done, "OK", _get_etag(done.latest[p.key]), VersionIdOf(fs_xattr))

\* variant: the declared md5 is not compared
FinishUploadUnchecked(tree, mode, p, stat, digest) ==
    publish_upload(tree, mode, p, stat, finish_upload_xattr(tree, mode, p, stat, digest, FALSE))

\* _finish_upload of an object (file_path /= upload_path): the declared md5 is
\* compared when a digest was computed
_finish_upload(tree, mode, p, stat, digest) ==
    IF digest /= <<>> /\ p.md5_b64 /= <<>> /\ p.md5_b64 /= digest
    THEN Uploaded(tree, "_upload_stream mismatch etag", <<>>, <<>>)
    ELSE publish_upload(tree, mode, p, stat, finish_upload_xattr(tree, mode, p, stat, digest, FALSE))

\* upload_object: the empty directory flow, or _start_upload (a staging file),
\* _upload_stream (the body and its digest) and _finish_upload
meta_upload(tree, mode, p) ==
    IF empty_dir_content_flow(p) THEN _create_empty_dir_content(tree, p)
    ELSE _finish_upload(Tick(tree), mode, p, Created(tree.clock + 1, p.data, EmptyXattr),
                        IF p.md5_enabled THEN MD5Hex(p.data) ELSE <<>>)

\* _delete_path_dirs(file_path): d is removed when nothing is left in it; the walk
\* ends at the bucket directory
_delete_path_dirs(tree, key) ==
    IF IsDirKey(key) /\ tree.dir.exists /\ ~tree.dir.child /\ tree.latest[key] = NoEnt
    THEN [tree EXCEPT !.dir = NoDir] ELSE tree

\* _clear_user_xattr(dir): ENOENT is ignored
_clear_user_xattr(tree) == IF tree.dir.exists THEN set_dir_xattr(tree, EmptyXattr) ELSE tree

\* variant: the xattrs of the directory are left in place
DeleteKeepingXattr(tree, key) == _delete_path_dirs([tree EXCEPT !.latest[key] = NoEnt], key)

\* _delete_single_object: unlink (ENOENT ignored), _delete_path_dirs and, for a
\* directory key, _clear_user_xattr of the directory
_delete_single_object(tree, key) ==
    IF IsDirKey(key) THEN _clear_user_xattr(_delete_path_dirs([tree EXCEPT !.latest[key] = NoEnt], key))
    ELSE _delete_path_dirs([tree EXCEPT !.latest[key] = NoEnt], key)

\* _create_delete_marker: a staged empty file with the version xattrs and
\* delete_marker, renamed to <key>_<its version id> in .versions/
_create_delete_marker(tree, mode, key, deleted_version_info) ==
    LET stat == Created(tree.clock + 1, <<>>, EmptyXattr)
        vid == IF mode = VER_ENABLED THEN version_id_by_stat_str(stat) ELSE NULL_VERSION_ID
        prev == IF mode = VER_SUSPENDED /\ deleted_version_info.exists
                    /\ deleted_version_info.version_id_str = NULL_VERSION_ID
                THEN meta_version_info(NoEnt) ELSE deleted_version_info
        marker == [stat EXCEPT !.xattr = assign_versions_to_map(tree, mode, prev, stat, key, EmptyXattr, TRUE)]
    IN  [Tick(tree) EXCEPT !.vers =
            { e \in @ : ~(KeyBase(e.key) = KeyBase(key) /\ e.vid = vid) }
            \cup {[key |-> key, vid |-> vid, f |-> marker]}]

\* _delete_latest_version: the latest is displaced, then the delete marker is made
_delete_latest_version(tree, mode, key) ==
    IF displace_latest(tree, mode, key, FALSE).err /= "OK" THEN displace_latest(tree, mode, key, FALSE)
    ELSE Out(_create_delete_marker(displace_latest(tree, mode, key, FALSE).fs, mode, key,
                                   meta_version_info(tree.latest[key])), "OK")

\* delete_object without a version id
meta_delete(tree, mode, key) ==
    IF mode = VER_DISABLED THEN Out(_delete_single_object(tree, key), "OK")
    ELSE _delete_latest_version(tree, mode, key)

\* config.NSFS_REMOVE_PARTS_ON_COMPLETE
NSFS_REMOVE_PARTS_ON_COMPLETE == TRUE

\* create_object_upload: the scratch directory and the saved request
meta_create_upload(tree, key, xattr) ==
    [tree EXCEPT !.mpu = [NoMpu EXCEPT !.exists = TRUE, !.key = key, !.xattr = xattr]]

\* open(part-<num>, 'w') and the body written: a new file, or the old one truncated
\* and rewritten (its inode and xattrs stay)
written_part(tree, num, data) ==
    IF tree.mpu.parts[num] = NoEnt THEN Created(tree.clock + 1, data, EmptyXattr)
    ELSE [tree.mpu.parts[num] EXCEPT !.mtime = tree.clock + 1, !.data = data]

\* upload_multipart: part-<num> is written and _finish_upload run with file_path =
\* upload_path (no versioning, no move).  upload_multipart does not keep what
\* _upload_stream returns, so the digest _finish_upload sees is undefined; the
\* request of a part carries neither xattr nor content_type.  replacexattr runs
\* when there are xattrs to write
meta_upload_multipart(tree, mode, num, data, md5_enabled) ==
    LET stat == written_part(tree, num, data)
        fs_xattr == finish_upload_xattr(tree, mode,
                        PutParams(tree.mpu.key, EmptyXattr, <<>>, <<>>, Len(data), data, md5_enabled),
                        stat, <<>>, TRUE)
        part == IF fs_xattr = EmptyXattr THEN stat ELSE [stat EXCEPT !.xattr = fs_xattr]
    IN  IF ~tree.mpu.exists THEN Uploaded(tree, "ENOENT", <<>>, <<>>)
        ELSE Uploaded([Tick(tree) EXCEPT !.mpu.parts[num] = part], "OK", _get_etag(part), <<>>)

\* the part-<N> files of the scratch directory, as readdir may yield them
PartFiles(tree) == { n \in PartNums : tree.mpu.parts[n] /= NoEnt }
ReaddirOrders(S) == { s \in [1..Cardinality(S) -> S] : \A i, j \in DOMAIN s : s[i] = s[j] => i = j }

\* the record list_multiparts makes of a part
PartRecord(tree, num) ==
    [num |-> num, size |-> Len(tree.mpu.parts[num].data), etag |-> _get_etag(tree.mpu.parts[num]),
     last_modified |-> tree.mpu.parts[num].mtime]

\* variant: the records are sorted by num
ListMultipartsSorted(tree, entries) ==
    [i \in 1..Len(entries) |->
        PartRecord(tree, CHOOSE n \in PartFiles(tree) : Cardinality({ m \in PartFiles(tree) : m < n }) = i - 1)]

\* list_multiparts: the entries named part-*, each mapped to its record, in the
\* order readdir gave them
meta_list_multiparts(tree, entries) == [i \in 1..Len(entries) |-> PartRecord(tree, entries[i])]

\* variant: the array is taken in the order given
KeepOrder(multiparts) == multiparts

\* multiparts.sort((a, b) => a.num - b.num)
sort_multiparts(multiparts) ==
    CHOOSE s \in [1..Len(multiparts) -> { multiparts[i] : i \in 1..Len(multiparts) }] :
        /\ \A i, j \in 1..Len(s) : i < j => s[i].num < s[j].num

\* the loop of complete_object_upload over the sorted parts from part i on: the part
\* is opened (ENOENT when it is missing), its etag compared, its bytes appended to
\* final and the bytes of its etag fed to the aggregate md5
RECURSIVE copy_parts(_, _, _, _)
copy_parts(tree, sorted, i, acc) ==
    IF i > Len(sorted) THEN acc
    ELSE IF tree.mpu.parts[sorted[i].num] = NoEnt THEN [acc EXCEPT !.err = "ENOENT"]
    ELSE IF sorted[i].etag /= _get_etag(tree.mpu.parts[sorted[i].num])
    THEN [acc EXCEPT !.err = "mismatch part etag"]
    ELSE copy_parts(tree, sorted, i + 1,
                    [acc EXCEPT !.data = @ \o tree.mpu.parts[sorted[i].num].data,
                                !.md5 = @ \o HexBytes(sorted[i].etag)])

\* the scratch directory is removed after a completion that succeeded
remove_parts(r) ==
    IF r.err = "OK" /\ NSFS_REMOVE_PARTS_ON_COMPLETE THEN [r EXCEPT !.fs.mpu = NoMpu] ELSE r

\* complete_object_upload after the loop: the xattrs of the saved create request,
\* the digest <aggregate>-<number of parts> when md5 is enabled, and _finish_upload
\* of the file final
finish_complete(tree, mode, multiparts, md5_enabled, copied) ==
    IF copied.err /= "OK" THEN Uploaded(tree, copied.err, <<>>, <<>>)
    ELSE remove_parts(_finish_upload(Tick(tree), mode,
            PutParams(tree.mpu.key, tree.mpu.xattr, <<>>, <<>>, Undeclared, copied.data, md5_enabled),
            Created(tree.clock + 1, copied.data, EmptyXattr),
            IF md5_enabled THEN MD5Hex(copied.md5) \o <<"-", NumStr(Len(multiparts))>> ELSE <<>>))

\* complete_object_upload
meta_complete_upload(tree, mode, multiparts, md5_enabled) ==
    IF ~tree.mpu.exists THEN Uploaded(tree, "ENOENT", <<>>, <<>>)
    ELSE finish_complete(tree, mode, multiparts, md5_enabled,
            copy_parts(tree, sort_multiparts(multiparts), 1, [err |-> "OK", data |-> <<>>, md5 |-> <<>>]))

\* read_object_md without a version id: stat of the md path, ENOENT for a delete
\* marker, and _get_object_info
meta_read_md(tree, mode, key) ==
    LET stat == MdStat(tree, key)
    IN  IF stat = NoEnt \/ (mode /= VER_DISABLED /\ XATTR_DELETE_MARKER \in DOMAIN stat.xattr)
        THEN [err |-> "ENOENT", etag |-> <<>>, xattr |-> EmptyXattr]
        ELSE [err |-> "OK", etag |-> _get_etag(stat), xattr |-> to_xattr(stat.xattr)]

\* _get_object_info of a listed entry
ObjectInfo(key, stat) ==
    [key |-> key, etag |-> _get_etag(stat), xattr |-> to_xattr(stat.xattr),
     delete_marker |-> XATTR_DELETE_MARKER \in DOMAIN stat.xattr
                        /\ stat.xattr[XATTR_DELETE_MARKER] = <<"true">>]

\* the objects of a listing without prefix, delimiter, marker or limit: the files,
\* d/ when the directory carries dir_content and, for list_object_versions, the
\* files of .versions/; list_objects leaves the delete markers out
meta_list(tree, list_versions) ==
    LET found == { ObjectInfo(key, tree.latest[key]) : key \in { k \in {MetaFileKey} : tree.latest[k] /= NoEnt } }
                 \cup { ObjectInfo(MetaDirKey, DirStat(tree)) :
                            x \in { d \in {tree.dir} : d.exists /\ XATTR_DIR_CONTENT \in DOMAIN d.xattr } }
                 \cup { ObjectInfo(e.key, e.f) : e \in { v \in tree.vers : list_versions } }
    IN  { o \in found : list_versions \/ ~o.delete_marker }

\* the requests of SpecMeta
MetaXattrs ==
    { [k \in names |-> <<"v">>] : names \in { {}, {<<"k">>}, {<<"content_md5">>, <<>>} } }
MetaBodies == { [size |-> 0, data |-> <<>>], [size |-> 1, data |-> <<"x">>] }
\* md5_b64 is only looked at when a digest is computed
MetaDigests ==
    { [md5_enabled |-> FALSE, md5_b64 |-> <<>>], [md5_enabled |-> TRUE, md5_b64 |-> <<>>],
      [md5_enabled |-> TRUE, md5_b64 |-> MD5Hex(<<"x">>)] }
MetaPuts ==
    { PutParams(key, xattr, content_type, d.md5_b64, body.size, body.data, d.md5_enabled) :
        key \in MetaKeys, xattr \in MetaXattrs, content_type \in {<<>>, <<"t">>},
        d \in MetaDigests, body \in MetaBodies }

\* the directory d as it stands before the run: absent, or a plain directory that
\* holds the file d/b
DirWithChild == [NoDir EXCEPT !.exists = TRUE, !.ino = 1, !.mtime = 1, !.child = TRUE]

\* variant: the access mode is compared with a name no store has
IsReadonlyOtherName(tree) == tree.access_mode = "READONLY"

\* is_readonly_namespace
is_readonly_namespace(tree) == tree.access_mode = "READ_ONLY"

\* upload_object as the store serves it: whoever holds the namespace asks
\* is_readonly_namespace first and rejects the request of a read-only store before
\* NamespaceFS.upload_object is entered
store_upload_object(tree, mode, p) ==
    IF is_readonly_namespace(tree) THEN Uploaded(tree, "READ_ONLY", <<>>, <<>>)
    ELSE meta_upload(tree, mode, p)

InitMeta ==
    /\ versioning \in versioning_status_enum
    /\ fs \in { [EmptyMeta EXCEPT !.clock = 1, !.access_mode = m, !.dir = d] :
                    m \in {"READ_WRITE", "READ_ONLY"}, d \in {NoDir, DirWithChild} }
    /\ procs = <<>>
    /\ last = [op |-> "none"]

meta_upload_object ==
    \E p \in MetaPuts : \E r \in {store_upload_object(fs, versioning, p)} :
        /\ fs.clock <= MaxWrites
        /\ fs' = r.fs
        /\ last' = [op |-> "upload_object", key |-> p.key, params |-> p, err |-> r.err,
                    etag |-> r.etag, version_id |-> r.version_id]
        /\ UNCHANGED <<versioning, procs>>

meta_delete_object ==
    \E key \in MetaKeys : \E r \in {meta_delete(fs, versioning, key)} :
        /\ fs.clock <= MaxWrites
        /\ fs' = r.fs
        /\ last' = [op |-> "delete_object", key |-> key, err |-> r.err]
        /\ UNCHANGED <<versioning, procs>>

meta_read_object_md ==
    \E key \in MetaKeys : \E r \in {meta_read_md(fs, versioning, key)} :
        /\ last' = [op |-> "read_object_md", key |-> key, err |-> r.err, etag |-> r.etag,
                    xattr |-> r.xattr]
        /\ UNCHANGED <<versioning, fs, procs>>

meta_list_objects ==
    /\ last' = [op |-> "list_objects", err |-> "OK", objects |-> meta_list(fs, FALSE)]
    /\ UNCHANGED <<versioning, fs, procs>>

meta_list_object_versions ==
    /\ last' = [op |-> "list_object_versions", err |-> "OK", objects |-> meta_list(fs, TRUE)]
    /\ UNCHANGED <<versioning, fs, procs>>

NextMeta ==
    \/ meta_upload_object
    \/ meta_delete_object
    \/ meta_read_object_md
    \/ meta_list_objects
    \/ meta_list_object_versions

SpecMeta == InitMeta /\ [][NextMeta]_vars

\* ---------------------------------------------------------------------------
\* SpecMpu: a multipart upload next to uploads and deletes of the same keys
\* ---------------------------------------------------------------------------

\* files and directories created in one run of SpecMpu
MaxMpuWrites == 3

MpuXattrs == { [k \in names |-> <<"v">>] : names \in { {}, {<<"content_md5">>} } }
MpuBodies == { [size |-> 0, data |-> <<>>], [size |-> Undeclared, data |-> <<>>],
               [size |-> 1, data |-> <<"x">>] }
MpuPuts ==
    { PutParams(key, xattr, <<>>, <<>>, body.size, body.data, md5_enabled) :
        key \in MetaKeys, xattr \in MpuXattrs, body \in MpuBodies, md5_enabled \in BOOLEAN }
PartBodies == { <<"p">>, <<"q">> }

\* the multiparts arrays of complete_object_upload: parts in any order, each with
\* the etag its upload returned
PartLists ==
    {<<>>} \cup { <<n>> : n \in PartNums }
           \cup { s \in { <<n, m>> : n \in PartNums, m \in PartNums } : s[1] /= s[2] }
Multiparts(tree, nums) ==
    [i \in 1..Len(nums) |-> [num |-> nums[i], etag |-> _get_etag(tree.mpu.parts[nums[i]])]]

InitMpu ==
    /\ versioning \in versioning_status_enum
    /\ fs = [EmptyMeta EXCEPT !.clock = 1]
    /\ procs = <<>>
    /\ last = [op |-> "none"]

mpu_upload_object ==
    \E p \in MpuPuts : \E r \in {meta_upload(fs, versioning, p)} :
        /\ fs.clock <= MaxMpuWrites
        /\ fs' = r.fs
        /\ last' = [op |-> "upload_object", key |-> p.key, params |-> p, err |-> r.err,
                    etag |-> r.etag, version_id |-> r.version_id]
        /\ UNCHANGED <<versioning, procs>>

mpu_delete_object ==
    \E key \in MetaKeys : \E r \in {meta_delete(fs, versioning, key)} :
        /\ fs.clock <= MaxMpuWrites
        /\ fs' = r.fs
        /\ last' = [op |-> "delete_object", key |-> key, err |-> r.err]
        /\ UNCHANGED <<versioning, procs>>

mpu_create_object_upload ==
    \E key \in MetaKeys, xattr \in MpuXattrs :
        /\ ~fs.mpu.exists
        /\ fs' = meta_create_upload(fs, key, xattr)
        /\ last' = [op |-> "create_object_upload", key |-> key, err |-> "OK"]
        /\ UNCHANGED <<versioning, procs>>

mpu_upload_multipart ==
    \E num \in PartNums, data \in PartBodies, md5_enabled \in BOOLEAN :
        \E r \in {meta_upload_multipart(fs, versioning, num, data, md5_enabled)} :
            /\ fs.mpu.exists
            /\ fs.clock <= MaxMpuWrites
            /\ fs' = r.fs
            /\ last' = [op |-> "upload_multipart", key |-> fs.mpu.key, num |-> num, err |-> r.err,
                        etag |-> r.etag, md5_enabled |-> md5_enabled]
            /\ UNCHANGED <<versioning, procs>>

mpu_list_multiparts ==
    \E entries \in ReaddirOrders(PartFiles(fs)) :
        /\ fs.mpu.exists
        /\ last' = [op |-> "list_multiparts", key |-> fs.mpu.key, err |-> "OK",
                    multiparts |-> meta_list_multiparts(fs, entries)]
        /\ UNCHANGED <<versioning, fs, procs>>

mpu_complete_object_upload ==
    \E nums \in PartLists, md5_enabled \in BOOLEAN :
        \E r \in {meta_complete_upload(fs, versioning, Multiparts(fs, nums), md5_enabled)} :
            /\ fs.mpu.exists
            /\ fs.clock <= MaxMpuWrites
            /\ fs' = r.fs
            /\ last' = [op |-> "complete_object_upload", key |-> fs.mpu.key, nums |-> nums,
                        err |-> r.err, etag |-> r.etag, md5_enabled |-> md5_enabled]
            /\ UNCHANGED <<versioning, procs>>

NextMpu ==
    \/ mpu_upload_object
    \/ mpu_delete_object
    \/ mpu_create_object_upload
    \/ mpu_upload_multipart
    \/ mpu_list_multiparts
    \/ mpu_complete_object_upload

SpecMpu == InitMpu /\ [][NextMpu]_vars

\* ---------------------------------------------------------------------------
\* Properties of object metadata (SpecMeta)
\* ---------------------------------------------------------------------------

\* the public names of the reserved xattrs, and of those to_xattr drops
ReservedNames == { SliceFrom(key, Len(XATTR_USER_PREFIX)) : key \in AllReservedXattr }
InternalNames == { SliceFrom(key, Len(XATTR_USER_PREFIX)) : key \in INTERNAL_XATTR }

\* read_object_md(K) returns right after upload_object(K, data, xattr = X) completed
ReadAfterUpload ==
    /\ last.op = "upload_object" /\ last.err = "OK"
    /\ last'.op = "read_object_md" /\ last'.key = last.key

C12_ExactStep == ReadAfterUpload => last'.err = "OK" /\ last'.xattr = last.params.xattr

\* C12 (as stated): upload_object(K, data, xattr = X) followed by read_object_md(K)
\* returns a public xattr map equal to X
C12_RoundTripExact == [][C12_ExactStep]_vars

\* the keys of X that are neither empty nor reserved
PlainKeys(xattr) == DOMAIN xattr \ (ReservedNames \cup {<<>>})

C12_PlainStep ==
    ReadAfterUpload =>
        /\ last'.err = "OK"
        /\ \A k \in PlainKeys(last.params.xattr) :
                k \in DOMAIN last'.xattr /\ last'.xattr[k] = last.params.xattr[k]
        /\ DOMAIN last'.xattr \subseteq
                PlainKeys(last.params.xattr) \cup {<<"content_md5">>, <<"version_id">>}

\* C12 (amended): upload_object(K, data, xattr = X) followed by read_object_md(K)
\* returns a public xattr map that has the value X has on every key of X that is
\* neither empty nor a reserved name, and no other key except content_md5 and
\* version_id
C12_RoundTripPlain == [][C12_PlainStep]_vars

\* read_object_md returned the user key k next to the md5 the upload computed
C12_Witness ==
    /\ last.op = "read_object_md" /\ last.err = "OK" /\ last.key = MetaFileKey
    /\ DOMAIN last.xattr = {<<"k">>, <<"content_md5">>}
    /\ last.xattr[<<"k">>] = <<"v">>
    /\ last.xattr[<<"content_md5">>] = MD5Hex(<<"x">>)

\* the public maps the last request returned
ReturnedMaps ==
    IF last.op = "read_object_md" /\ last.err = "OK" THEN {last.xattr}
    ELSE IF last.op \in {"list_objects", "list_object_versions"} THEN { o.xattr : o \in last.objects }
    ELSE {}

\* C13 (as stated): the public xattr map of read_object_md and of the listings holds
\* none of content_type, content_md5, version_id, prev_version_id, delete_marker,
\* dir_content
C13_NoReservedKey == \A xattr \in ReturnedMaps : DOMAIN xattr \cap ReservedNames = {}

\* C13 (amended): the public xattr map of read_object_md and of the listings holds
\* none of content_type, prev_version_id, delete_marker, dir_content
C13_NoInternalKey == \A xattr \in ReturnedMaps : DOMAIN xattr \cap InternalNames = {}

\* list_object_versions returned a delete marker that has a previous version: its
\* delete_marker and prev_version_id xattrs are not in the public map
C13_Witness ==
    /\ last.op = "list_object_versions"
    /\ \E e \in fs.vers : /\ {XATTR_DELETE_MARKER, XATTR_PREV_VERSION_ID} \subseteq DOMAIN e.f.xattr
                          /\ ObjectInfo(e.key, e.f) \in last.objects
    /\ \E o \in last.objects : o.delete_marker /\ DOMAIN o.xattr = {<<"version_id">>}

\* ---------------------------------------------------------------------------
\* Properties of etags, multipart uploads and directory objects (SpecMpu)
\* ---------------------------------------------------------------------------

\* the etag matches .+-.+
HasDash(etag) == \E i \in 2..(Len(etag) - 1) : etag[i] = "-"

\* an upload that completed
UploadOps == {"upload_object", "upload_multipart", "complete_object_upload"}
UploadDone == last.op \in UploadOps /\ last.err = "OK"

\* C14 (as stated): every completed upload_object, upload_multipart and
\* complete_object_upload returns an etag that contains a dash
C14_EtagHasDash == UploadDone => HasDash(last.etag)

\* the file the upload info was taken from
UploadTarget ==
    IF last.op = "upload_multipart" THEN fs.mpu.parts[last.num]
    ELSE IF last.op = "upload_object" /\ empty_dir_content_flow(last.params) THEN DirStat(fs)
    ELSE fs.latest[last.key]

\* C14 (amended): every completed upload returns an etag that contains a dash, or
\* else the etag is the content_md5 xattr of the file the upload wrote;
\* complete_object_upload with md5 calculation enabled returns an etag with a dash
C14_EtagDashOrMd5 ==
    UploadDone =>
        \/ HasDash(last.etag)
        \/ /\ XATTR_MD5_KEY \in DOMAIN UploadTarget.xattr
           /\ last.etag = UploadTarget.xattr[XATTR_MD5_KEY]
           /\ ~(last.op = "complete_object_upload" /\ last.md5_enabled)

\* an upload without md5 returned an etag by stat, and one with md5 the md5
C14_Witness ==
    /\ last.op = "upload_object" /\ last.err = "OK" /\ ~last.params.md5_enabled
    /\ last.etag = version_id_by_stat_str(fs.latest[last.key])
    /\ HasDash(last.etag)

\* the part numbers of a multiparts array in ascending order
AscendingNums(nums) ==
    [i \in 1..Len(nums) |->
        CHOOSE n \in { nums[j] : j \in 1..Len(nums) } :
            Cardinality({ j \in 1..Len(nums) : nums[j] < n }) = i - 1]

\* the bodies of the parts nums[i..], one after the other, and their md5s likewise
RECURSIVE BodiesFrom(_, _, _)
BodiesFrom(tree, nums, i) ==
    IF i > Len(nums) THEN <<>> ELSE tree.mpu.parts[nums[i]].data \o BodiesFrom(tree, nums, i + 1)
RECURSIVE Md5sFrom(_, _, _)
Md5sFrom(tree, nums, i) ==
    IF i > Len(nums) THEN <<>>
    ELSE MD5Hex(tree.mpu.parts[nums[i]].data) \o Md5sFrom(tree, nums, i + 1)

C15_BodyStep ==
    (last'.op = "complete_object_upload" /\ last'.err = "OK") =>
        fs'.latest[last'.key].data = BodiesFrom(fs, AscendingNums(last'.nums), 1)

\* the body half of C15: the published body is the parts in ascending part number
C15_BodyAscending == [][C15_BodyStep]_vars

C15_Step ==
    (last'.op = "complete_object_upload" /\ last'.err = "OK") =>
        /\ fs'.latest[last'.key].data = BodiesFrom(fs, AscendingNums(last'.nums), 1)
        /\ last'.md5_enabled =>
                last'.etag = MD5Hex(Md5sFrom(fs, AscendingNums(last'.nums), 1))
                                \o <<"-", NumStr(Len(last'.nums))>>

\* C15: complete_object_upload publishes the concatenation of the listed parts in
\* ascending part number, whatever the order of the multiparts array, and with md5
\* enabled its etag is <aggregate>-<number of parts>, the aggregate being the md5 of
\* the parts' md5s in ascending part number
C15_CompleteAscending == [][C15_Step]_vars

\* C16: list_multiparts returns exactly the part-<N> files of the upload, one
\* record per part, in ascending part number, whatever order readdir yields
C16_PartsSorted ==
    (last.op = "list_multiparts" /\ last.err = "OK") =>
        /\ { last.multiparts[i].num : i \in 1..Len(last.multiparts) } = PartFiles(fs)
        /\ Len(last.multiparts) = Cardinality(PartFiles(fs))
        /\ \A i, j \in 1..Len(last.multiparts) :
                i < j => last.multiparts[i].num < last.multiparts[j].num

\* the value of dir_content on the directory d, and the file d/.folder
DirContent(tree) == tree.dir.xattr[XATTR_DIR_CONTENT]
HasDirContent(tree) == tree.dir.exists /\ XATTR_DIR_CONTENT \in DOMAIN tree.dir.xattr
Folder(tree) == tree.latest[MetaDirKey]

\* the directory object was written by the upload_object that just completed
\* (and so not by a multipart completion)
PutByUploadObject == last.op = "upload_object" /\ last.key = MetaDirKey /\ last.err = "OK"

\* C17: after any sequence of completed uploads, completions and deletes, a
\* directory carrying dir_content = N > 0 has a .folder of size N, and one carrying
\* dir_content = 0 that an upload_object wrote (declared size or not) has no .folder
C17_DirContentFolder ==
    HasDirContent(fs) =>
        /\ DirContent(fs) /= <<NumStr(0)>> =>
                Folder(fs) /= NoEnt /\ DirContent(fs) = <<NumStr(Len(Folder(fs).data))>>
        /\ (DirContent(fs) = <<NumStr(0)>> /\ PutByUploadObject) => Folder(fs) = NoEnt

\* ---------------------------------------------------------------------------
\* Properties of deletes (SpecMeta)
\* ---------------------------------------------------------------------------

\* a delete_object of d/ completes in this step while d holds another entry
DeleteOfParentDir ==
    /\ last'.op = "delete_object" /\ last'.key = MetaDirKey /\ last'.err = "OK"
    /\ fs.dir.exists /\ fs.dir.child

C18_Step ==
    DeleteOfParentDir =>
        /\ fs'.latest[MetaDirKey] = NoEnt
        /\ fs'.dir.exists /\ fs'.dir.child /\ fs'.dir.ino = fs.dir.ino
        /\ fs'.dir.xattr = EmptyXattr

\* C18: delete_object of a directory key whose directory still has children removes
\* .folder, keeps the directory and its children, and leaves no user.* xattr
\* (dir_content included) on the directory, in every versioning mode
C18_DeleteKeepsChildren == [][C18_Step]_vars

\* the same for a bucket whose versioning is disabled
C18_Disabled == [][versioning = VER_DISABLED => C18_Step]_vars

\* an upload_object on a read-only store completes in this step
UploadOnReadOnly == last'.op = "upload_object" /\ fs.access_mode = "READ_ONLY"

MaxDepth == 2

\* the key prefix d/d/.../ of n levels
RECURSIVE Nest(_)
Nest(n) == IF n = 0 THEN <<>> ELSE <<"d", "/">> \o Nest(n - 1)

\* the keys: the file x of each level, and each directory as a directory key
NestedKeys == { Nest(n) \o <<"x">> : n \in 0..MaxDepth } \cup { Nest(n) : n \in 1..MaxDepth }

\* _get_file_path: a directory key designates the file .folder of the directory
nested_file_path(key) ==
    IF IsDirKey(key) THEN bucket_path \o Slash \o key \o <<".folder">>
    ELSE bucket_path \o Slash \o key

\* the tree of SpecDirs: the paths of the files, of the directories (the bucket
\* directory among them) and of the directories that carry dir_content
EmptyBucket == [files |-> {}, dirs |-> {bucket_path}, objs |-> {}]

\* what readdir(dir) finds
DirEntries(tree, dir) == { p \in tree.files \cup tree.dirs : Dirname(p) = dir }

\* the directories on the way from the bucket directory to a path
PathDirs(path) ==
    { SubSeq(path, 1, i - 1) : i \in { j \in 1..Len(path) : path[j] = "/" /\ j > Len(bucket_path) } }

\* _make_path_dirs(file_path): _create_path of the directory of the file
nested_make_path_dirs(tree, file_path) == [tree EXCEPT !.dirs = @ \cup PathDirs(file_path)]

\* rmdir fails with ENOENT or ENOTEMPTY
RmdirFails(tree, dir) == dir \notin tree.dirs \/ DirEntries(tree, dir) /= {}
Rmdir(tree, dir) == [tree EXCEPT !.dirs = @ \ {dir}, !.objs = @ \ {dir}]

\* the loop of _delete_path_dirs: rmdir of dir and of its parents up to the bucket
\* directory; the first rmdir that fails ends the walk (the error is swallowed)
RECURSIVE rmdir_up(_, _)
rmdir_up(tree, dir) ==
    IF dir = bucket_path THEN tree
    ELSE IF RmdirFails(tree, dir) THEN tree
    ELSE rmdir_up(Rmdir(tree, dir), Dirname(dir))

\* variant: only the directory of the file is removed
DeletePathDirsOnce(tree, file_path) ==
    IF Dirname(file_path) = bucket_path \/ RmdirFails(tree, Dirname(file_path)) THEN tree
    ELSE Rmdir(tree, Dirname(file_path))

\* _delete_path_dirs(file_path)
_delete_path_dirs_walk(tree, file_path) == rmdir_up(tree, Dirname(file_path))

\* _clear_user_xattr of the directory of a directory key, if it is still there
nested_clear_user_xattr(tree, key) ==
    IF IsDirKey(key) THEN [tree EXCEPT !.objs = @ \ {Dirname(nested_file_path(key))}] ELSE tree

\* _delete_single_object: unlink (ENOENT ignored), _delete_path_dirs, _clear_user_xattr
nested_delete_single_object(tree, key) ==
    nested_clear_user_xattr(
        _delete_path_dirs_walk([tree EXCEPT !.files = @ \ {nested_file_path(key)}],
                               nested_file_path(key)), key)

\* upload_object with versioning disabled: the directories of the path are made;
\* a directory key of declared size 0 leaves no .folder, any other upload puts the
\* file in place; the directory of a directory key gets dir_content
nested_upload(tree, key, size) ==
    LET made == nested_make_path_dirs(tree, nested_file_path(key))
        obj == IF IsDirKey(key) THEN {Dirname(nested_file_path(key))} ELSE {}
    IN  IF empty_dir_content_flow([key |-> key, size |-> size])
        THEN [made EXCEPT !.files = @ \ {nested_file_path(key)}, !.objs = @ \cup obj]
        ELSE [made EXCEPT !.files = @ \cup {nested_file_path(key)}, !.objs = @ \cup obj]

InitDirs ==
    /\ versioning = VER_DISABLED
    /\ fs = EmptyBucket
    /\ procs = <<>>
    /\ last = [op |-> "none"]

nested_upload_object ==
    \E key \in NestedKeys, size \in {0, 1} :
        /\ fs' = nested_upload(fs, key, size)
        /\ last' = [op |-> "upload_object", key |-> key, err |-> "OK", removed |-> {}]
        /\ UNCHANGED <<versioning, procs>>

\* removed: the directories the request removed
nested_delete_object ==
    \E key \in NestedKeys : \E t \in {nested_delete_single_object(fs, key)} :
        /\ fs' = t
        /\ last' = [op |-> "delete_object", key |-> key, err |-> "OK", removed |-> fs.dirs \ t.dirs]
        /\ UNCHANGED <<versioning, procs>>

NextDirs == nested_upload_object \/ nested_delete_object

SpecDirs == InitDirs /\ [][NextDirs]_vars

\* ---------------------------------------------------------------------------
\* Properties of the directories of a deleted key (SpecDirs)
\* ---------------------------------------------------------------------------

\* the ancestor directories of the deleted key, the bucket directory left out
AncestorDirs == PathDirs(nested_file_path(last'.key)) \ {bucket_path}

\* dir had entries before the delete and none of them is left after it
BecameEmpty(dir) ==
    /\ dir \in fs.dirs /\ DirEntries(fs, dir) /= {}
    /\ DirEntries(fs, dir) \cap (fs'.files \cup fs'.dirs) = {}

C19_Step ==
    (last'.op = "delete_object" /\ versioning = VER_DISABLED) =>
        /\ \A dir \in AncestorDirs : BecameEmpty(dir) => dir \notin fs'.dirs
        /\ \A gone \in fs.dirs \ fs'.dirs :
                /\ gone \in AncestorDirs
                /\ DirEntries(fs, gone) \cap (fs'.files \cup fs'.dirs) = {}
                /\ \A dir \in AncestorDirs \cap fs.dirs : StartsWith(dir, gone) => dir \notin fs'.dirs
        /\ \A dir \in AncestorDirs \cap fs'.dirs :
                DirEntries(fs', dir) /= {} => \A up \in PathDirs(dir) : up \in fs'.dirs
        /\ bucket_path \in fs'.dirs
        /\ fs'.files = fs.files \ {nested_file_path(last'.key)}

\* C19: after delete_object(K) with versioning disabled every ancestor directory of K
\* that became empty is removed, bottom-up; the removal stops at the first ancestor
\* that is not empty, and the bucket directory is never removed
C19_EmptyAncestorsRemoved == [][C19_Step]_vars

\* a delete removed both directories of its key and stopped at the bucket directory,
\* which still holds a file
C19_Witness ==
    /\ last.op = "delete_object" /\ last.key = Nest(2) \o <<"x">>
    /\ Cardinality(last.removed) = 2
    /\ fs.files = {nested_file_path(<<"x">>)}

\* ---------------------------------------------------------------------------
\* SpecMarker: reads by key and version id after uploads, deletes and changes of
\* the versioning mode
\* ---------------------------------------------------------------------------

\* files created in one run of SpecMarker
MaxMarkerWrites == 3

\* _translate_object_error_codes
_translate_object_error_codes(code) ==
    IF code = "ENOENT" THEN "NO_SUCH_OBJECT"
    ELSE IF code = "EEXIST" THEN "BUCKET_ALREADY_EXISTS"
    ELSE IF code \in {"EPERM", "EACCES"} THEN "UNAUTHORIZED"
    ELSE code

\* the file _find_version_path(key, version_id, return_md_path) resolves to, as stat
\* finds it (NoEnt: none): the latest (the md path) without a version id or when the
\* latest carries the id, else <key>_<version_id> in .versions/
find_version_file(tree, key, version_id, return_md_path) ==
    LET cur == IF return_md_path THEN MdStat(tree, key) ELSE tree.latest[key]
    IN  IF version_id = <<>> THEN cur
        ELSE IF cur /= NoEnt /\ meta_version_info(cur).version_id_str = version_id THEN cur
        ELSE VersionFile(tree, key, version_id)

\* variant: the delete marker is looked at only when versioning is enabled
ThrowIfDeleteMarkerEnabledOnly(mode, stat) ==
    mode = VER_ENABLED /\ XATTR_DELETE_MARKER \in DOMAIN stat.xattr

\* _throw_if_delete_marker: it throws (TRUE) when versioning is enabled or suspended
\* and the file carries delete_marker
_throw_if_delete_marker(mode, stat) ==
    mode \in {VER_ENABLED, VER_SUSPENDED} /\ XATTR_DELETE_MARKER \in DOMAIN stat.xattr

\* what a read returns: the error or 'OK', the object's xattr and the bytes sent
ReadReply(err, xattr, data) == [err |-> err, xattr |-> xattr, data |-> data]

\* read_object_md(key, version_id)
read_md_by_version(tree, mode, key, version_id) ==
    LET stat == find_version_file(tree, key, version_id, TRUE)
    IN  IF stat = NoEnt \/ _throw_if_delete_marker(mode, stat)
        THEN ReadReply(_translate_object_error_codes("ENOENT"), EmptyXattr, <<>>)
        ELSE ReadReply("OK", to_xattr(stat.xattr), <<>>)

\* read_object_stream(key, version_id) of the whole object, run to its end: nothing
\* is sent for a directory whose dir_content is 0; else the file is opened, its stat
\* checked for a delete marker, and its bytes written to the response
read_stream_by_version(tree, mode, key, version_id) ==
    LET file == find_version_file(tree, key, version_id, FALSE)
    IN  IF IsDirKey(key) /\ tree.dir.exists /\ XATTR_DIR_CONTENT \in DOMAIN tree.dir.xattr
                /\ tree.dir.xattr[XATTR_DIR_CONTENT] = <<NumStr(0)>>
        THEN ReadReply("OK", EmptyXattr, <<>>)
        ELSE IF file = NoEnt \/ _throw_if_delete_marker(mode, file)
        THEN ReadReply(_translate_object_error_codes("ENOENT"), EmptyXattr, <<>>)
        ELSE ReadReply("OK", EmptyXattr, file.data)

\* the version ids a read names: none, 'null', or the id of a stored version
MarkerIds(tree) == {<<>>, NULL_VERSION_ID} \cup { e.vid : e \in tree.vers }

MarkerPuts ==
    { PutParams(MetaFileKey, EmptyXattr, <<>>, <<>>, 1, <<"x">>, FALSE) }

InitMarker ==
    /\ versioning = VER_DISABLED
    /\ fs = [EmptyMeta EXCEPT !.clock = 1]
    /\ procs = <<>>
    /\ last = [op |-> "none"]

\* set_bucket_versioning(versioning): this.versioning takes the value handed in
marker_set_bucket_versioning ==
    \E v \in versioning_status_enum :
        /\ versioning' = v
        /\ last' = [op |-> "set_bucket_versioning", err |-> "OK"]
        /\ UNCHANGED <<fs, procs>>

marker_upload_object ==
    \E p \in MarkerPuts : \E r \in {meta_upload(fs, versioning, p)} :
        /\ fs.clock <= MaxMarkerWrites
        /\ fs' = r.fs
        /\ last' = [op |-> "upload_object", key |-> p.key, err |-> r.err]
        /\ UNCHANGED <<versioning, procs>>

marker_delete_object ==
    \E r \in {meta_delete(fs, versioning, MetaFileKey)} :
        /\ fs.clock <= MaxMarkerWrites
        /\ fs' = r.fs
        /\ last' = [op |-> "delete_object", key |-> MetaFileKey, err |-> r.err]
        /\ UNCHANGED <<versioning, procs>>

marker_read_object_md ==
    \E version_id \in MarkerIds(fs) :
        \E r \in {read_md_by_version(fs, versioning, MetaFileKey, version_id)} :
            /\ last' = [op |-> "read_object_md", key |-> MetaFileKey, version_id |-> version_id,
                        err |-> r.err, xattr |-> r.xattr, data |-> r.data]
            /\ UNCHANGED <<versioning, fs, procs>>

marker_read_object_stream ==
    \E version_id \in MarkerIds(fs) :
        \E r \in {read_stream_by_version(fs, versioning, MetaFileKey, version_id)} :
            /\ last' = [op |-> "read_object_stream", key |-> MetaFileKey, version_id |-> version_id,
                        err |-> r.err, xattr |-> r.xattr, data |-> r.data]
            /\ UNCHANGED <<versioning, fs, procs>>

NextMarker ==
    \/ marker_set_bucket_versioning
    \/ marker_upload_object
    \/ marker_delete_object
    \/ marker_read_object_md
    \/ marker_read_object_stream

SpecMarker == InitMarker /\ [][NextMarker]_vars

\* ---------------------------------------------------------------------------
\* Properties of reads of delete markers (SpecMarker)
\* ---------------------------------------------------------------------------

\* the last request was a read, and the file it addressed carries delete_marker
ReadOfMarker ==
    /\ last.op \in {"read_object_md", "read_object_stream"}
    /\ find_version_file(fs, last.key, last.version_id, last.op = "read_object_md") /= NoEnt
    /\ XATTR_DELETE_MARKER \in
            DOMAIN find_version_file(fs, last.key, last.version_id, last.op = "read_object_md").xattr

Refused == last.err = "NO_SUCH_OBJECT" /\ last.data = <<>>

\* C21 (as stated): a read addressed at a file whose delete_marker xattr is true
\* fails with NoSuchObject and delivers no data, in every versioning mode
C21_MarkerRefused == ReadOfMarker => Refused

\* C21 (amended): while versioning is enabled or suspended, a read addressed at a
\* file whose delete_marker xattr is true fails with NoSuchObject and delivers no
\* data
C21_MarkerRefusedVersioned == (ReadOfMarker /\ versioning /= VER_DISABLED) => Refused

\* read_object_stream named the null delete marker of a suspended bucket and failed
C21_Witness ==
    /\ ReadOfMarker /\ last.op = "read_object_stream" /\ last.version_id = NULL_VERSION_ID
    /\ versioning = VER_SUSPENDED /\ Refused

\* ---------------------------------------------------------------------------
\* SpecStream: read_object_stream and the copy loop of complete_object_upload, one
\* awaited operation at a time, next to the caller's abort signal and the response
\* ---------------------------------------------------------------------------

\* bytes of the file that is read, and bytes a pool buffer holds
MaxFileLen == 2
BufLen == 1
\* parts of the upload that is completed
MaxParts == 2

\* the bytes 1..n of the file
RECURSIVE FileBytes(_)
FileBytes(n) == IF n = 0 THEN <<>> ELSE Append(FileBytes(n - 1), NumStr(n))

\* the world of SpecStream: data the bytes of the file (of every part), aborted the
\* abort signal, rel[i] how often buffer i (the i-th that get_buffer lent) was
\* released, pending the buffers whose release was handed to res.write, written and
\* ended what the response got, handles the open file handles
StreamWorld(data) ==
    [data |-> data, aborted |-> FALSE, rel |-> <<>>, pending |-> {}, written |-> <<>>,
     ended |-> FALSE, handles |-> 0]

\* the locals of the request: buffer_pool_cleanup (0: null), drain_promise pending or
\* not, file / read_file / target_file held or not, n the bytes of the chunk in hand,
\* part the multipart in turn
StreamRequest(op, start, end, parts) ==
    [op |-> op, pc |-> "begin", pos |-> start, end |-> end, parts |-> parts, part |-> 0,
     buffer_pool_cleanup |-> 0, drain_promise |-> FALSE, file |-> FALSE, read_file |-> FALSE,
     target_file |-> FALSE, n |-> 0, err |-> "OK"]

Sn(p, tree) == [p |-> p, fs |-> tree]

\* buffers_pool.get_buffer() and the callback that gives the buffer back
GetBuffer(tree) == [tree EXCEPT !.rel = Append(@, 0)]
Callback(tree, buffer) == [tree EXCEPT !.rel[buffer] = @ + 1]

Close(tree, held) == IF held THEN [tree EXCEPT !.handles = @ - 1] ELSE tree
Open(tree) == [tree EXCEPT !.handles = @ + 1]

\* variant: the buffer is given back although buffer_pool_cleanup was reset
ReadFinallyLastBuffer(p, tree, err) ==
    Sn([p EXCEPT !.pc = "done", !.err = err, !.file = FALSE, !.buffer_pool_cleanup = 0],
       IF tree.rel /= <<>> THEN Callback(Close(tree, p.file), Len(tree.rel)) ELSE Close(tree, p.file))

\* read_object_stream, catch and finally: the file is closed if it is still held and
\* the buffer released if buffer_pool_cleanup is set
read_finally(p, tree, err) ==
    Sn([p EXCEPT !.pc = "done", !.err = err, !.file = FALSE, !.buffer_pool_cleanup = 0],
       IF p.buffer_pool_cleanup /= 0 THEN Callback(Close(tree, p.file), p.buffer_pool_cleanup)
       ELSE Close(tree, p.file))

\* object_sdk.throw_if_aborted() throws
Aborted(tree) == tree.aborted

\* read_object_stream up to the first await of the loop: open and stat of the file
read_open(p, tree, ok) ==
    IF ~ok THEN read_finally(p, tree, "ENOENT")
    ELSE Sn([p EXCEPT !.pc = "loop", !.file = TRUE], Open(tree))

\* the head of the loop: pos < end, throw_if_aborted, the warm-up read of a sparse
\* file or get_buffer
read_loop(p, tree, sparse) ==
    IF p.pos >= p.end THEN Sn([p EXCEPT !.pc = "close"], tree)
    ELSE IF Aborted(tree) THEN read_finally(p, tree, "ABORTED")
    ELSE Sn([p EXCEPT !.pc = IF sparse THEN "warmup" ELSE "get_buffer"], tree)

\* after the warm-up read
read_warmed(p, tree, ok) ==
    IF ~ok THEN read_finally(p, tree, "EIO") ELSE Sn([p EXCEPT !.pc = "get_buffer"], tree)

\* after get_buffer: buffer_pool_cleanup = callback, throw_if_aborted, file.read
read_got_buffer(p, tree, ok) ==
    IF ~ok THEN read_finally(p, tree, "IO_STREAM_ITEM_TIMEOUT")
    ELSE IF Aborted(tree)
    THEN read_finally([p EXCEPT !.buffer_pool_cleanup = Len(tree.rel) + 1], GetBuffer(tree), "ABORTED")
    ELSE Sn([p EXCEPT !.pc = "read", !.buffer_pool_cleanup = Len(tree.rel) + 1], GetBuffer(tree))

\* bytesRead of a read of at most size bytes at pos
BytesRead(tree, pos, size) ==
    IF pos >= Len(tree.data) \/ size <= 0 THEN 0
    ELSE IF Len(tree.data) - pos < size THEN Len(tree.data) - pos ELSE size

\* read_size = min(buffer.length, max(0, end - pos))
ReadSize(p) == IF p.end - p.pos < BufLen THEN (IF p.end - p.pos < 0 THEN 0 ELSE p.end - p.pos) ELSE BufLen

\* variant: the buffer stays with buffer_pool_cleanup after res.write took it
ReadWriteKeepingCleanup(p, tree, write_ok) ==
    Sn([p EXCEPT !.pc = "loop", !.drain_promise = ~write_ok],
       [tree EXCEPT !.pending = @ \cup {p.buffer_pool_cleanup},
                    !.written = @ \o SubSeq(tree.data, p.pos - p.n + 1, p.pos)])

\* buffer_pool_cleanup = null; res.write(data, null, callback); a pending drain when
\* the response is full
read_write(p, tree, write_ok) ==
    Sn([p EXCEPT !.pc = "loop", !.buffer_pool_cleanup = 0, !.drain_promise = ~write_ok],
       [tree EXCEPT !.pending = @ \cup {p.buffer_pool_cleanup},
                    !.written = @ \o SubSeq(tree.data, p.pos - p.n + 1, p.pos)])

\* after file.read: the end of the file gives the buffer back and leaves the loop;
\* else throw_if_aborted, pos += bytesRead, and the wait for the drain or the write
read_done(p, tree, ok, write_ok) ==
    IF ~ok THEN read_finally(p, tree, "EIO")
    ELSE IF BytesRead(tree, p.pos, ReadSize(p)) = 0
    THEN Sn([p EXCEPT !.pc = "close", !.buffer_pool_cleanup = 0], Callback(tree, p.buffer_pool_cleanup))
    ELSE IF Aborted(tree) THEN read_finally(p, tree, "ABORTED")
    ELSE IF p.drain_promise
    THEN Sn([p EXCEPT !.pc = "drain", !.n = BytesRead(tree, p.pos, ReadSize(p)),
                      !.pos = @ + BytesRead(tree, p.pos, ReadSize(p))], tree)
    ELSE read_write([p EXCEPT !.n = BytesRead(tree, p.pos, ReadSize(p)),
                              !.pos = @ + BytesRead(tree, p.pos, ReadSize(p))], tree, write_ok)

\* variant: no look at the abort signal after the drain
ReadDrainedUnchecked(p, tree, ok, write_ok) ==
    IF ~ok THEN read_finally(p, tree, "ABORT_ERR")
    ELSE read_write([p EXCEPT !.drain_promise = FALSE], tree, write_ok)

\* after await drain_promise in the loop
read_drained(p, tree, ok, write_ok) ==
    IF ~ok THEN read_finally(p, tree, "ABORT_ERR")
    ELSE IF Aborted(tree) THEN read_finally(p, tree, "ABORTED")
    ELSE read_write([p EXCEPT !.drain_promise = FALSE], tree, write_ok)

\* after file.close: file = null, throw_if_aborted, the last drain or res.end()
read_closed(p, tree, ok) ==
    IF ~ok THEN read_finally(p, tree, "EIO")
    ELSE IF Aborted(tree) THEN read_finally([p EXCEPT !.file = FALSE], Close(tree, TRUE), "ABORTED")
    ELSE IF p.drain_promise THEN Sn([p EXCEPT !.pc = "last_drain", !.file = FALSE], Close(tree, TRUE))
    ELSE Sn([p EXCEPT !.pc = "finish", !.file = FALSE], [Close(tree, TRUE) EXCEPT !.ended = TRUE])

\* after the last drain: throw_if_aborted, res.end()
read_last_drained(p, tree, ok) ==
    IF ~ok THEN read_finally(p, tree, "ABORT_ERR")
    ELSE IF Aborted(tree) THEN read_finally(p, tree, "ABORTED")
    ELSE Sn([p EXCEPT !.pc = "finish", !.drain_promise = FALSE], [tree EXCEPT !.ended = TRUE])

\* after wait_finished: throw_if_aborted, return null
read_finished(p, tree, ok) ==
    IF ~ok THEN read_finally(p, tree, "ABORT_ERR")
    ELSE IF Aborted(tree) THEN read_finally(p, tree, "ABORTED")
    ELSE read_finally(p, tree, "OK")

\* complete_object_upload_finally: the buffer is released if buffer_pool_cleanup is
\* set, read_file and target_file are closed if they are held
complete_finally(p, tree, err) ==
    Sn([p EXCEPT !.pc = "done", !.err = err, !.read_file = FALSE, !.target_file = FALSE,
                 !.buffer_pool_cleanup = 0],
       IF p.buffer_pool_cleanup /= 0
       THEN Callback(Close(Close(tree, p.read_file), p.target_file), p.buffer_pool_cleanup)
       ELSE Close(Close(tree, p.read_file), p.target_file))

\* complete_object_upload up to the loop: the file 'final' is opened
complete_open(p, tree, ok) ==
    IF ~ok THEN complete_finally(p, tree, "EACCES")
    ELSE Sn([p EXCEPT !.pc = "part", !.target_file = TRUE], Open(tree))

\* the next multipart: its file is opened, its etag compared, get_buffer awaited;
\* after the last one _finish_upload is awaited
complete_part(p, tree, ok) ==
    IF p.part >= p.parts THEN Sn([p EXCEPT !.pc = "finish_upload"], tree)
    ELSE IF ~ok THEN complete_finally(p, tree, "ENOENT")
    ELSE Sn([p EXCEPT !.pc = "get_buffer", !.part = @ + 1, !.pos = 0, !.read_file = TRUE], Open(tree))

\* after get_buffer: buffer_pool_cleanup = callback, read_file.read
complete_got_buffer(p, tree, ok) ==
    IF ~ok THEN complete_finally(p, tree, "IO_STREAM_ITEM_TIMEOUT")
    ELSE Sn([p EXCEPT !.pc = "read", !.buffer_pool_cleanup = Len(tree.rel) + 1], GetBuffer(tree))

\* after read_file.read: the end of the part gives the buffer back and closes the
\* part; else target_file.write is awaited
complete_read_done(p, tree, ok) ==
    IF ~ok THEN complete_finally(p, tree, "EIO")
    ELSE IF BytesRead(tree, p.pos, BufLen) = 0
    THEN Sn([p EXCEPT !.pc = "close_part", !.buffer_pool_cleanup = 0], Callback(tree, p.buffer_pool_cleanup))
    ELSE Sn([p EXCEPT !.pc = "write", !.pos = @ + BytesRead(tree, p.pos, BufLen)], tree)

\* after target_file.write: the buffer goes back to the pool
complete_written(p, tree, ok) ==
    IF ~ok THEN complete_finally(p, tree, "ENOSPC")
    ELSE Sn([p EXCEPT !.pc = "get_buffer", !.buffer_pool_cleanup = 0], Callback(tree, p.buffer_pool_cleanup))

\* after read_file.close: read_file = null
complete_part_closed(p, tree, ok) ==
    IF ~ok THEN complete_finally(p, tree, "EIO")
    ELSE Sn([p EXCEPT !.pc = "part", !.read_file = FALSE], Close(tree, TRUE))

\* after _finish_upload and target_file.close
complete_finished(p, tree, ok) ==
    IF ~ok THEN complete_finally(p, tree, "EIO")
    ELSE complete_finally([p EXCEPT !.target_file = FALSE], Close(tree, TRUE), "OK")

StreamRequests ==
    { StreamRequest("read_object_stream", start, end, 0) :
        start \in 0..1, end \in 0..(MaxFileLen + 1) }
    \cup { StreamRequest("complete_object_upload", 0, 0, parts) : parts \in 0..MaxParts }

InitStream ==
    /\ versioning = VER_DISABLED
    /\ \E n \in 0..MaxFileLen : fs = StreamWorld(FileBytes(n))
    /\ \E p \in StreamRequests : procs = <<p>>
    /\ last = [op |-> "none"]

\* a step of the request: its locals, the world, and its outcome when it is over
StreamStep(s) ==
    /\ procs' = <<s.p>>
    /\ fs' = s.fs
    /\ last' = IF s.p.pc = "done" THEN [op |-> s.p.op, err |-> s.p.err] ELSE last
    /\ UNCHANGED versioning

At(op, pc) == procs[1].op = op /\ procs[1].pc = pc

stream_open ==
    /\ At("read_object_stream", "begin")
    /\ \E ok \in BOOLEAN : StreamStep(read_open(procs[1], fs, ok))
stream_loop ==
    /\ At("read_object_stream", "loop")
    /\ \E sparse \in BOOLEAN : StreamStep(read_loop(procs[1], fs, sparse))
stream_warmed ==
    /\ At("read_object_stream", "warmup")
    /\ \E ok \in BOOLEAN : StreamStep(read_warmed(procs[1], fs, ok))
stream_got_buffer ==
    /\ At("read_object_stream", "get_buffer")
    /\ \E ok \in BOOLEAN : StreamStep(read_got_buffer(procs[1], fs, ok))
stream_read_done ==
    /\ At("read_object_stream", "read")
    /\ \E ok \in BOOLEAN, write_ok \in BOOLEAN : StreamStep(read_done(procs[1], fs, ok, write_ok))
stream_drained ==
    /\ At("read_object_stream", "drain")
    /\ \E ok \in BOOLEAN, write_ok \in BOOLEAN : StreamStep(read_drained(procs[1], fs, ok, write_ok))
stream_closed ==
    /\ At("read_object_stream", "close")
    /\ \E ok \in BOOLEAN : StreamStep(read_closed(procs[1], fs, ok))
stream_last_drained ==
    /\ At("read_object_stream", "last_drain")
    /\ \E ok \in BOOLEAN : StreamStep(read_last_drained(procs[1], fs, ok))
stream_finished ==
    /\ At("read_object_stream", "finish")
    /\ \E ok \in BOOLEAN : StreamStep(read_finished(procs[1], fs, ok))

copy_open ==
    /\ At("complete_object_upload", "begin")
    /\ \E ok \in BOOLEAN : StreamStep(complete_open(procs[1], fs, ok))
copy_part ==
    /\ At("complete_object_upload", "part")
    /\ \E ok \in BOOLEAN : StreamStep(complete_part(procs[1], fs, ok))
copy_got_buffer ==
    /\ At("complete_object_upload", "get_buffer")
    /\ \E ok \in BOOLEAN : StreamStep(complete_got_buffer(procs[1], fs, ok))
copy_read_done ==
    /\ At("complete_object_upload", "read")
    /\ \E ok \in BOOLEAN : StreamStep(complete_read_done(procs[1], fs, ok))
copy_written ==
    /\ At("complete_object_upload", "write")
    /\ \E ok \in BOOLEAN : StreamStep(complete_written(procs[1], fs, ok))
copy_part_closed ==
    /\ At("complete_object_upload", "close_part")
    /\ \E ok \in BOOLEAN : StreamStep(complete_part_closed(procs[1], fs, ok))
copy_finished ==
    /\ At("complete_object_upload", "finish_upload")
    /\ \E ok \in BOOLEAN : StreamStep(complete_finished(procs[1], fs, ok))

\* the caller aborts the request
stream_abort ==
    /\ procs[1].pc /= "done" /\ ~fs.aborted
    /\ fs' = [fs EXCEPT !.aborted = TRUE]
    /\ UNCHANGED <<versioning, procs, last>>

\* the response is done with a chunk (flushed, or destroyed) and calls the callback
\* of its write
response_callback ==
    \E buffer \in fs.pending :
        /\ fs' = [Callback(fs, buffer) EXCEPT !.pending = @ \ {buffer}]
        /\ UNCHANGED <<versioning, procs, last>>

NextStream ==
    \/ stream_open \/ stream_loop \/ stream_warmed \/ stream_got_buffer \/ stream_read_done
    \/ stream_drained \/ stream_closed \/ stream_last_drained \/ stream_finished
    \/ copy_open \/ copy_part \/ copy_got_buffer \/ copy_read_done \/ copy_written
    \/ copy_part_closed \/ copy_finished
    \/ stream_abort \/ response_callback

SpecStream == InitStream /\ [][NextStream]_vars

\* ---------------------------------------------------------------------------
\* Properties of buffers and cancellation (SpecStream)
\* ---------------------------------------------------------------------------

Buffers == 1..Len(fs.rel)
StreamOver == procs[1].pc = "done"

\* C22: every buffer borrowed by read_object_stream or complete_object_upload is
\* released exactly once on every exit path: never twice, and once the request is
\* over every buffer but those whose release the response still owes was released
C22_ReleasedOnce ==
    /\ \A b \in Buffers : fs.rel[b] <= 1
    /\ StreamOver => \A b \in Buffers : fs.rel[b] = (IF b \in fs.pending THEN 0 ELSE 1)
    /\ \A b \in fs.pending : fs.rel[b] = 0

\* a read that ended on a failed drain wait while it held its second buffer: both
\* buffers are back
C22_Witness ==
    /\ StreamOver /\ procs[1].op = "read_object_stream" /\ procs[1].err = "ABORT_ERR"
    /\ fs.pending = {} /\ Len(fs.rel) = 2

\* the read is under way and the caller has aborted it
CancelledRead == procs[1].op = "read_object_stream" /\ procs[1].pc /= "done" /\ fs.aborted

C23_Step ==
    CancelledRead =>
        /\ fs'.written = fs.written /\ fs'.ended = fs.ended
        /\ procs'[1].pc \in {procs[1].pc, "loop", "get_buffer", "close", "done"}
        /\ procs'[1].pc = "done" =>
                /\ procs'[1].err /= "OK"
                /\ fs'.handles = 0
                /\ \A b \in 1..Len(fs'.rel) : fs'.rel[b] = (IF b \in fs'.pending THEN 0 ELSE 1)

\* C23: once the caller has signalled cancellation, read_object_stream sends nothing
\* more to the response and does not end it, starts no further read of the file
\* (it stops at its next check, after the awaited operation in flight), and when it
\* is over the file is closed and the pool buffer released
C23_CancelStops == [][C23_Step]_vars

\* a read cancelled after its first chunk was written, while it held a second buffer
C23_Witness ==
    /\ StreamOver /\ procs[1].op = "read_object_stream" /\ procs[1].err = "ABORTED"
    /\ fs.aborted /\ Len(fs.written) = 1 /\ Len(fs.rel) = 2 /\ fs.handles = 0

\* ---------------------------------------------------------------------------
\* SpecCopy: server-side copies between two keys of one bucket
\* ---------------------------------------------------------------------------

\* files created in one run of SpecCopy
MaxCopyWrites == 3

CopyKeys == {<<"a">>, <<"c">>}
EmptyCopy == [EmptyMeta EXCEPT !.clock = 1, !.latest = [key \in CopyKeys |-> NoEnt]]

\* copy_status_enum
COPY_SAME_INODE == "SAME_INODE"
COPY_LINKED == "LINKED"
COPY_FALLBACK == "FALLBACK"

\* replacexattr on an open file: the xattrs belong to the inode, so every name of
\* the inode shows them
replacexattr(tree, ino, fs_xattr) ==
    [tree EXCEPT !.latest = [key \in DOMAIN @ |->
                                IF @[key] /= NoEnt /\ @[key].ino = ino
                                THEN [@[key] EXCEPT !.xattr = fs_xattr] ELSE @[key]],
                 !.vers = { IF e.f.ino = ino THEN [e EXCEPT !.f.xattr = fs_xattr] ELSE e : e \in @ }]

\* _try_copy_file: with versioning disabled SAME_INODE when the destination is the
\* inode of the source, else LINKED (the link of an existing source into the staging
\* path succeeds); FALLBACK otherwise
_try_copy_file(tree, mode, key, source_key) ==
    IF mode /= VER_DISABLED \/ tree.latest[source_key] = NoEnt THEN COPY_FALLBACK
    ELSE IF tree.latest[key] /= NoEnt /\ tree.latest[key].ino = tree.latest[source_key].ino
    THEN COPY_SAME_INODE
    ELSE COPY_LINKED

\* the xattrs _finish_upload writes for a copy: none when the xattrs are copied,
\* else those of the request
copy_fs_xattr(tree, mode, p, stat) == finish_upload_xattr(tree, mode, p, stat, <<>>, FALSE)

\* _finish_upload of a copy that was linked: replacexattr on the staged file unless
\* the xattrs are copied, then _move_to_dest
finish_linked(tree, mode, p, source_key, xattr_copy) ==
    LET source == tree.latest[source_key]
        written == IF xattr_copy THEN tree
                   ELSE replacexattr(tree, source.ino, copy_fs_xattr(tree, mode, p, source))
        moved == _move_to_dest(written, mode, p.key, written.latest[source_key])
    IN  Uploaded(moved.fs, moved.err, _get_etag(moved.fs.latest[p.key]), <<>>)

\* _finish_upload of a copy onto the inode of the source: replacexattr unless the
\* xattrs are copied, and no move
finish_same_inode(tree, mode, p, xattr_copy) ==
    LET written == IF xattr_copy THEN tree
                   ELSE replacexattr(tree, tree.latest[p.key].ino,
                                     copy_fs_xattr(tree, mode, p, tree.latest[p.key]))
    IN  Uploaded(written, "OK", _get_etag(written.latest[p.key]), <<>>)

\* the fallback: the bytes of the source are streamed into a staged file, which gets
\* the xattrs of the request unless the xattrs are copied, and is published
finish_fallback(tree, mode, p, source_key, xattr_copy) ==
    publish_upload(Tick(tree), mode, p,
                   Created(tree.clock + 1, tree.latest[source_key].data, EmptyXattr),
                   IF xattr_copy THEN EmptyXattr
                   ELSE copy_fs_xattr(tree, mode, p, Created(tree.clock + 1, <<>>, EmptyXattr)))

\* upload_object(p, copy_source = {key: source_key})
meta_copy(tree, mode, p, source_key, xattr_copy) ==
    IF _try_copy_file(tree, mode, p.key, source_key) = COPY_SAME_INODE
    THEN finish_same_inode(tree, mode, p, xattr_copy)
    ELSE IF _try_copy_file(tree, mode, p.key, source_key) = COPY_LINKED
    THEN finish_linked(tree, mode, p, source_key, xattr_copy)
    ELSE finish_fallback(tree, mode, p, source_key, xattr_copy)

CopyXattrs == { [k \in names |-> <<"v">>] : names \in { {}, {<<"k">>} } }
CopyPuts == { PutParams(key, xattr, <<>>, <<>>, 1, <<"x">>, FALSE) : key \in CopyKeys, xattr \in CopyXattrs }

InitCopy ==
    /\ versioning \in versioning_status_enum
    /\ fs = EmptyCopy
    /\ procs = <<>>
    /\ last = [op |-> "none"]

copy_upload_object ==
    \E p \in CopyPuts, data \in {<<"x">>, <<"y">>} :
        \E r \in {meta_upload(fs, versioning, [p EXCEPT !.data = data])} :
            /\ fs.clock <= MaxCopyWrites
            /\ fs' = r.fs
            /\ last' = [op |-> "upload_object", key |-> p.key, source |-> <<>>, err |-> r.err]
            /\ UNCHANGED <<versioning, procs>>

\* upload_object with a copy_source that exists
copy_copy_object ==
    \E p \in CopyPuts, source_key \in CopyKeys, xattr_copy \in BOOLEAN :
        \E r \in {meta_copy(fs, versioning, p, source_key, xattr_copy)} :
            /\ fs.latest[source_key] /= NoEnt
            /\ fs.clock <= MaxCopyWrites
            /\ fs' = r.fs
            /\ last' = [op |-> "copy_object", key |-> p.key, source |-> source_key, err |-> r.err]
            /\ UNCHANGED <<versioning, procs>>

copy_delete_object ==
    \E key \in CopyKeys : \E r \in {meta_delete(fs, versioning, key)} :
        /\ fs.clock <= MaxCopyWrites
        /\ fs' = r.fs
        /\ last' = [op |-> "delete_object", key |-> key, source |-> <<>>, err |-> r.err]
        /\ UNCHANGED <<versioning, procs>>

NextCopy == copy_upload_object \/ copy_copy_object \/ copy_delete_object

SpecCopy == InitCopy /\ [][NextCopy]_vars

\* ---------------------------------------------------------------------------
\* Properties of server-side copies (SpecCopy)
\* ---------------------------------------------------------------------------

\* a copy from S to another key D completes in this step
CopyDone == last'.op = "copy_object" /\ last'.err = "OK" /\ last'.source /= last'.key

\* delete_object(D) completes in this step right after a copy from S to D
DeleteOfCopy ==
    /\ last.op = "copy_object" /\ last.err = "OK" /\ last.source /= last.key
    /\ last'.op = "delete_object" /\ last'.err = "OK" /\ last'.key = last.key

C24_Step ==
    /\ CopyDone => /\ fs'.latest[last'.key] /= NoEnt
                   /\ fs'.latest[last'.key].data = fs.latest[last'.source].data
                   /\ fs'.latest[last'.source] = fs.latest[last'.source]
    /\ DeleteOfCopy => fs'.latest[last.source] = fs.latest[last.source]

\* C24: a server-side copy from S to D yields D with the bytes of S and leaves the
\* bytes and the metadata of S unchanged, whether or not the xattrs are copied; a
\* delete_object(D) that follows leaves S unchanged
C24_CopyLeavesSource == [][C24_Step]_vars

\* ---------------------------------------------------------------------------
\* SpecDigest: uploads that declare an md5, with and without md5 calculation
\* ---------------------------------------------------------------------------

\* files created in one run of SpecDigest
MaxDigestWrites == 3

DigestBodies == {<<"x">>, <<"y">>}
DigestPuts ==
    { PutParams(MetaFileKey, EmptyXattr, <<>>, md5_b64, Len(data), data, md5_enabled) :
        md5_b64 \in {<<>>} \cup { MD5Hex(b) : b \in DigestBodies },
        data \in DigestBodies, md5_enabled \in BOOLEAN }

InitDigest ==
    /\ versioning \in versioning_status_enum
    /\ fs = [EmptyMeta EXCEPT !.clock = 1]
    /\ procs = <<>>
    /\ last = [op |-> "none"]

digest_upload_object ==
    \E p \in DigestPuts : \E r \in {meta_upload(fs, versioning, p)} :
        /\ fs.clock <= MaxDigestWrites
        /\ fs' = r.fs
        /\ last' = [op |-> "upload_object", key |-> p.key, params |-> p, err |-> r.err]
        /\ UNCHANGED <<versioning, procs>>

digest_delete_object ==
    \E r \in {meta_delete(fs, versioning, MetaFileKey)} :
        /\ fs.clock <= MaxDigestWrites
        /\ fs' = r.fs
        /\ last' = [op |-> "delete_object", key |-> MetaFileKey, err |-> r.err]
        /\ UNCHANGED <<versioning, procs>>

NextDigest == digest_upload_object \/ digest_delete_object

SpecDigest == InitDigest /\ [][NextDigest]_vars

\* ---------------------------------------------------------------------------
\* Properties of declared md5s (SpecDigest)
\* ---------------------------------------------------------------------------

\* the upload of this step declared an md5 that is not the md5 of its bytes
WrongMd5 ==
    /\ last'.op = "upload_object"
    /\ last'.params.md5_b64 /= <<>>
    /\ last'.params.md5_b64 /= MD5Hex(last'.params.data)

\* the upload of this step failed and the key is as it was
Rejected ==
    /\ last'.err /= "OK"
    /\ fs'.latest = fs.latest
    /\ fs'.vers = fs.vers

\* the claim as stated: a wrong declared md5 is rejected, md5 calculation
\* configured or not
C25_WrongMd5Rejected == [][WrongMd5 => Rejected]_vars

\* C25: upload_object with a declared md5 that differs from the md5 of the streamed
\* bytes fails and leaves the latest and the versions of the key unchanged when md5
\* calculation is configured
C25_WrongMd5RejectedWhenComputed == [][WrongMd5 /\ last'.params.md5_enabled => Rejected]_vars

\* a wrong declared md5 was rejected over a key that has a latest and a version
C25_Witness ==
    /\ last.op = "upload_object"
    /\ last.params.md5_enabled
    /\ last.params.md5_b64 /= <<>>
    /\ last.params.md5_b64 /= MD5Hex(last.params.data)
    /\ last.err = "_upload_stream mismatch etag"
    /\ fs.latest[MetaFileKey] /= NoEnt
    /\ fs.vers /= {}

\* ---------------------------------------------------------------------------
\* Staging files (SpecPublish)
\* ---------------------------------------------------------------------------

\* the staging file of the request in slot i
StagedBy(i) == { f \in fs.uploads : InFlight(i) /\ procs[i].tmp = f.ino }

\* C26: once upload_object has returned, with or without an error, the staging file
\* it created is no longer under <tmpdir>/uploads/: every file there belongs to a
\* request in flight
C26_NoStagingLeft == \A f \in fs.uploads : \E i \in 1..MaxProcs : f \in StagedBy(i)

\* ---------------------------------------------------------------------------
\* Promotion after the delete of a version (Spec)
\* ---------------------------------------------------------------------------

\* the version that the delete_object request of this step names, as the request finds it
Deleted == _get_version_info(fs, _find_version_path(fs, KeyOfLast, IdOfLast))

\* the tree once that version is unlinked
AfterUnlink == Remove(fs, Deleted.path)

\* the promotion candidate of that request: the version named by prev_version_id of
\* the deleted latest when it exists, else the newest entry of .versions/
Candidate ==
    LET by_hint == IF Deleted.path = LatestPath(KeyOfLast) /\ Deleted.prev_version_id /= NoXattr
                   THEN get_prev_version_info(AfterUnlink, KeyOfLast, Deleted.prev_version_id)
                   ELSE NoInfo
    IN  IF by_hint.exists THEN by_hint ELSE find_max_version_past(AfterUnlink, KeyOfLast)

\* this step is a delete_object of a stored version after which promotion runs with a
\* candidate and an empty latest path
PromotionRuns ==
    /\ versioning /= VER_DISABLED
    /\ last'.op = "delete_object" /\ IdOfLast /= NoXattr
    /\ Deleted.exists
    /\ Deleted.path = LatestPath(KeyOfLast) \/ Deleted.delete_marker
    /\ AfterUnlink.latest[KeyOfLast] = NoFile
    /\ Candidate.exists

\* nothing but the unlink happened
NotPromoted == fs' = AfterUnlink
\* the candidate is the latest and left .versions/
Promoted ==
    /\ fs'.latest[KeyOfLast] = Stat(AfterUnlink, Candidate.path)
    /\ Stat(fs', Candidate.path) = NoFile

C27_SkippedNewer ==
    /\ last.op = "delete_object" /\ last.err = "OK"
    /\ last.objects[1].version_id /= NoXattr
    /\ last.res[1].deleted_delete_marker
    /\ last.res[1].version_id /= NULL_VERSION_ID
    /\ fs.latest[last.objects[1].key] = NoFile
    /\ \E e \in VersionsOfKey(fs, last.objects[1].key) :
            ~e.f.dm /\ e.vid /= NULL_VERSION_ID
            /\ _extract_version_info_from_xattr(last.res[1].version_id).mtime < e.f.mtime
            /\ \A o \in VersionsOfKey(fs, last.objects[1].key) : o.f.mtime <= e.f.mtime

\* the candidate as the layout defines it: the version named by prev_version_id of the
\* deleted latest when that file exists, else the entry with the greatest mtime among
\* the entries <basename>_<id> of the .versions/ directory of the key
CandidateByBasename ==
    LET by_hint == IF Deleted.path = LatestPath(KeyOfLast) /\ Deleted.prev_version_id /= NoXattr
                   THEN get_prev_version_info(AfterUnlink, KeyOfLast, Deleted.prev_version_id)
                   ELSE NoInfo
        arr == VersionsOfKey(AfterUnlink, KeyOfLast)
        mt(e) == IF e.vid = NULL_VERSION_ID THEN e.f.mtime
                 ELSE _extract_version_info_from_xattr(e.vid).mtime
    IN  IF by_hint.exists THEN by_hint
        ELSE IF arr = {} THEN NoInfo
        ELSE _get_version_info(AfterUnlink,
                _get_version_path(KeyOfLast, (CHOOSE e \in arr : \A o \in arr : mt(o) <= mt(e)).vid))

\* this step is a delete_object of a stored version after which promotion looks for a
\* candidate over an empty latest path
PromotionSelects ==
    /\ versioning /= VER_DISABLED
    /\ last'.op = "delete_object" /\ IdOfLast /= NoXattr
    /\ Deleted.exists
    /\ Deleted.path = LatestPath(KeyOfLast) \/ Deleted.delete_marker
    /\ AfterUnlink.latest[KeyOfLast] = NoFile

\* C28: the promotion candidate of a key is the version named by prev_version_id of
\* the deleted latest when that file exists, else the entry of the key's .versions/
\* with the greatest mtime among the entries <basename>_<id>, for keys at the bucket
\* root and keys inside sub-directories alike
C28_CandidateOfEveryKey ==
    [][PromotionSelects =>
        /\ Candidate = CandidateByBasename
        /\ (/\ CandidateByBasename.exists /\ ~CandidateByBasename.delete_marker
            /\ ~(Deleted.delete_marker /\ Deleted.mtime < CandidateByBasename.mtime))
           => fs'.latest[KeyOfLast] = Stat(AfterUnlink, CandidateByBasename.path)]_vars

\* the same for the key at the bucket root only
C28_CandidateAtRoot == [][(PromotionSelects /\ KeyOfLast.dir = "") => Candidate = CandidateByBasename]_vars

\* ---------------------------------------------------------------------------
\* SpecRace: the delete of a version of a key next to an upload to the same key, one
\* await at a time.  Slot 1 holds the delete_object request, slot 2 the upload_object
\* request; between races, requests run one after the other.
\* ---------------------------------------------------------------------------

\* files created in one run of SpecRace
MaxRaceFiles == 4

\* the key of the race
RaceKey == [dir |-> "", base |-> "k"]

race_set_bucket_versioning ==
    /\ Quiescent
    /\ \E v \in {VER_ENABLED, VER_SUSPENDED} : versioning' = v
    /\ versioning' /= versioning
    /\ UNCHANGED <<fs, procs, last>>

\* upload_object with no other request in flight
race_upload_object ==
    /\ Quiescent
    /\ fs.clock < MaxRaceFiles - 1
    /\ \E s \in {Run(St(NewRequest("upload_object", RaceKey, NoXattr, "up_start"), fs), versioning)} :
           /\ fs' = s.fs
           /\ last' = Returned("upload_object", <<Obj(RaceKey, NoXattr)>>, <<s.p.res>>, s.p.res.err)
    /\ UNCHANGED <<versioning, procs>>

\* delete_object without version id with no other request in flight
race_delete_object ==
    /\ Quiescent
    /\ versioning /= VER_DISABLED
    /\ fs.clock < MaxRaceFiles - 1
    /\ \E s \in {Run(St(NewRequest("delete_object", RaceKey, NoXattr, "del_start"), fs), versioning)} :
           /\ fs' = s.fs
           /\ last' = Returned("delete_object", <<Obj(RaceKey, NoXattr)>>, <<s.p.res>>, s.p.res.err)
    /\ UNCHANGED <<versioning, procs>>

\* delete_object(key, version_id) arrives
race_begin_delete ==
    /\ ~InFlight(1)
    /\ versioning /= VER_DISABLED
    /\ \E version_id \in IdsOf(fs, RaceKey) \ {NoXattr} :
           procs' = [procs EXCEPT ![1] = NewRequest("delete_object", RaceKey, version_id, "del_start")]
    /\ UNCHANGED <<versioning, fs, last>>

\* upload_object(key) arrives
race_begin_upload ==
    /\ ~InFlight(2)
    /\ versioning /= VER_DISABLED
    /\ fs.clock < MaxRaceFiles
    /\ procs' = [procs EXCEPT ![2] = NewRequest("upload_object", RaceKey, NoXattr, "up_start")]
    /\ UNCHANGED <<versioning, fs, last>>

\* a request in flight takes its next step; when it returns, its slot is free again
race_step ==
    \E i \in 1..2 :
        /\ InFlight(i)
        /\ \E s \in {Step(procs[i], fs, versioning)} :
               /\ fs' = s.fs
               /\ IF s.p.pc = "done"
                  THEN /\ procs' = [procs EXCEPT ![i] = Idle]
                       /\ last' = Returned(s.p.op, <<Obj(s.p.key, s.p.version_id)>>,
                                           <<s.p.res>>, s.p.res.err)
                  ELSE /\ procs' = [procs EXCEPT ![i] = s.p]
                       /\ UNCHANGED last
        /\ UNCHANGED versioning

NextRace ==
    \/ race_set_bucket_versioning
    \/ race_upload_object
    \/ race_delete_object
    \/ race_begin_delete
    \/ race_begin_upload
    \/ race_step

SpecRace == Init /\ [][NextRace]_vars

\* ---------------------------------------------------------------------------
\* Properties of promotion next to an upload (SpecRace)
\* ---------------------------------------------------------------------------

\* the delete request of slot 1 takes a step of _promote_version_to_latest
PromotionStepTaken ==
    /\ procs[1].pc \in {"pr_read", "pr_link", "pr_unlink"}
    /\ procs'[1] /= procs[1]

\* the promotion has not linked its candidate yet and the key has a latest
LatestInTheWay == procs[1].pc \in {"pr_read", "pr_link"} /\ fs.latest[RaceKey] /= NoFile

C29_Step ==
    PromotionStepTaken =>
        /\ fs.latest[RaceKey] /= NoFile => fs'.latest[RaceKey] = fs.latest[RaceKey]
        /\ LatestInTheWay => (fs' = fs /\ procs'[1].pc \in {"dvi_ret", "pr_read"})

\* C29: when the delete of a version of a key races with an upload to the key,
\* promotion never replaces or removes a latest: when a latest exists as promotion
\* looks, or appears before its move, promotion moves nothing and raises no error (it
\* returns, or looks once more and returns), the delete request goes on to return its
\* result, and the latest stays
C29_PromotionYields == [][C29_Step]_vars

\* the upload linked its file to the key path after promotion chose a candidate
C29_Witness ==
    /\ procs[1].pc = "pr_link"
    /\ fs.latest[RaceKey] /= NoFile
    /\ fs.latest[RaceKey].ino = fs.clock
    /\ procs[1].cand.exists

\* ---------------------------------------------------------------------------
\* SpecRetry: the retry loops of the publisher and the version manager, each attempt
\* failing or succeeding as racing writers make it
\* ---------------------------------------------------------------------------

RetryLoops == {"_move_to_dest", "_delete_single_object_versioned", "_delete_latest_version",
               "_delete_null_version_from_versions_directory", "_promote_version_to_latest",
               "_create_delete_marker"}

\* what an attempt can throw
RetryErrors == {"ENOENT", "EEXIST", "EACCES", posix_link_retry_err, posix_unlink_retry_err}

\* variant: the catch does not count the attempt
CreateDeleteMarkerCatchUncounted(p, err) ==
    IF err = "EEXIST" THEN Return(p) ELSE Go(p, "dm_create")

\* _create_delete_marker, catch: EEXIST is a success, every other error is tried again
CreateDeleteMarkerCatch(p, err) ==
    IF p.retries - 1 <= 0 THEN Throw(p, err)
    ELSE IF err = "EEXIST" THEN Return(p)
    ELSE [p EXCEPT !.pc = "dm_create", !.retries = @ - 1]

\* the top of each loop
LoopHead(loop) ==
    CASE loop = "_delete_single_object_versioned" -> "dsv_find"
      [] loop = "_delete_latest_version" -> "dlv_read"
      [] loop = "_delete_null_version_from_versions_directory" -> "dnv_read"
      [] loop = "_promote_version_to_latest" -> "pr_read"
      [] OTHER -> "dm_create"

\* the request as it enters the loop: let retries = config.NSFS_RENAME_RETRIES
LoopEnter(loop, mode) ==
    LET p == [NewRequest(loop, CHOOSE key \in Keys : TRUE, NoXattr, "done")
                EXCEPT !.cont = "returned", !.tmp = 1]
    IN  IF loop = "_move_to_dest" THEN MtdEnter(p, mode) ELSE Go(p, LoopHead(loop))

\* the catch of the loop the request is in, _move_to_dest_version inside _move_to_dest
LoopCatch(loop, p, tree, mode, err) ==
    CASE loop = "_move_to_dest" ->
            IF p.pc = "mv_read" THEN MvCatch(p, tree, mode, err) ELSE MtdCatch(p, tree, mode, err)
      [] loop = "_promote_version_to_latest" -> PromoteCatch(p, err)
      [] loop = "_create_delete_marker" -> CreateDeleteMarkerCatch(p, err)
      [] OTHER -> RetryCatch(p, err, LoopHead(loop))

\* a loop under way: the request, the attempts of the loop so far (this one included),
\* the attempts of _move_to_dest_version inside this attempt of _move_to_dest, and
\* the error of the latest failed attempt
Looping(loop, p, attempts, inner, err) ==
    [loop |-> loop, p |-> p, attempts |-> attempts, inner |-> inner, err |-> err]

\* the staging file of the request is still there, or a racing request removed it
StagedTree == [EmptyTree EXCEPT !.clock = 1, !.uploads = {NewFile(EmptyTree, 1)}]

InitRetry ==
    /\ versioning \in versioning_status_enum
    /\ fs \in {EmptyTree, StagedTree}
    /\ procs = <<Looping("none", Idle, 0, 0, "OK")>>
    /\ last = Returned("none", <<>>, <<>>, "OK")

LoopOver == procs[1].p.pc \in {"done", "returned"}

\* a loop is entered and makes its first attempt
retry_begin ==
    \E loop \in RetryLoops :
        /\ LoopOver
        /\ loop \notin {"_move_to_dest"} => versioning /= VER_DISABLED
        /\ procs' = <<Looping(loop, LoopEnter(loop, versioning), 1,
                              IF loop = "_move_to_dest" /\ versioning /= VER_DISABLED THEN 1 ELSE 0, "OK")>>
        /\ UNCHANGED <<versioning, fs, last>>

\* the attempt reaches the break or return of the loop
retry_attempt_ok ==
    /\ ~LoopOver
    /\ procs' = <<[procs[1] EXCEPT !.p = Return(@)]>>
    /\ last' = Returned(procs[1].loop, <<>>, <<>>, "OK")
    /\ UNCHANGED <<versioning, fs>>

\* the loop as the catch leaves it: q is the request after the catch.  A retry of
\* _move_to_dest_version leaves the attempt of _move_to_dest that called it under way
AfterCatch(r, q, err) ==
    IF q.pc \in {"done", "returned"} THEN Looping(r.loop, q, r.attempts, r.inner, err)
    ELSE IF r.loop = "_move_to_dest" /\ q.mretries = r.p.mretries
    THEN Looping(r.loop, q, r.attempts, r.inner + 1, err)
    ELSE Looping(r.loop, q, r.attempts + 1, IF r.inner = 0 THEN 0 ELSE 1, err)

\* the attempt throws: the catch of the loop decides
retry_attempt_fail ==
    \E err \in RetryErrors :
        \E q \in {LoopCatch(procs[1].loop, procs[1].p, fs, versioning, err)} :
            /\ ~LoopOver
            /\ procs' = <<AfterCatch(procs[1], q, err)>>
            /\ last' = IF q.pc = "done" THEN Returned(procs[1].loop, <<>>, <<>>, q.res.err)
                       ELSE IF q.pc = "returned" THEN Returned(procs[1].loop, <<>>, <<>>, "OK")
                       ELSE last
            /\ UNCHANGED <<versioning, fs>>

\* a racing request removes the staging file
retry_source_removed ==
    /\ fs.uploads /= {}
    /\ fs' = [fs EXCEPT !.uploads = {}]
    /\ UNCHANGED <<versioning, procs, last>>

NextRetry == retry_begin \/ retry_attempt_ok \/ retry_attempt_fail \/ retry_source_removed

SpecRetry == InitRetry /\ [][NextRetry]_vars

\* ---------------------------------------------------------------------------
\* Properties of the retry loops (SpecRetry)
\* ---------------------------------------------------------------------------

\* C30: every retry loop of the version manager and the publisher makes at most
\* NSFS_RENAME_RETRIES attempts, whatever the attempts throw, and when it is over it
\* has returned or thrown the error of its final attempt
C30_BoundedRetries ==
    /\ procs[1].attempts <= NSFS_RENAME_RETRIES
    /\ procs[1].inner <= NSFS_RENAME_RETRIES
    /\ (procs[1].p.pc = "done" /\ procs[1].loop /= "none") =>
            (procs[1].p.res.err = procs[1].err /\ procs[1].err /= "OK")

\* a loop threw the error of its last attempt after as many attempts as it may make
C30_Witness ==
    /\ procs[1].loop = "_create_delete_marker"
    /\ procs[1].p.pc = "done"
    /\ procs[1].attempts = NSFS_RENAME_RETRIES
    /\ procs[1].p.res.err = "ENOENT"

\* the attempt of this step threw and the loop goes round once more
TriedAgain ==
    /\ procs[1].p.pc \notin {"done", "returned"}
    /\ procs'[1].p.pc \notin {"done", "returned"}
    /\ procs'[1] /= procs[1]

\* C31: in every retry loop only an identity mismatch of link or unlink, or ENOENT,
\* causes another attempt; any other error is thrown from the attempt in which it
\* occurred
C31_OnlyRetryable ==
    [][TriedAgain => procs'[1].err \in {posix_link_retry_err, posix_unlink_retry_err, "ENOENT"}]_vars

\* the same for the loops other than _create_delete_marker
C31_OnlyRetryableButMarker ==
    [][(TriedAgain /\ procs[1].loop /= "_create_delete_marker")
        => procs'[1].err \in {posix_link_retry_err, posix_unlink_retry_err, "ENOENT"}]_vars

\* ---------------------------------------------------------------------------
\* SpecArgs: the requests of SpecMeta with the arguments the entry points refuse, a
\* delimiter that is neither '' nor '/' and a key that holds './'. Keys and
\* delimiters are sequences of characters and names.

\* an Error made by `new Error(message)`: it carries neither code nor rpc_code
PlainError == "Error"

\* String.prototype.includes
Includes(str, sub) ==
    \E i \in 1..(Len(str) - Len(sub) + 1) : SubSeq(str, i, i + Len(sub) - 1) = sub

\* _list_objects: `if (delimiter && delimiter !== '/') throw new Error(...)`
invalid_delimiter(delimiter) == delimiter /= <<>> /\ delimiter /= <<"/">>

\* _get_file_path: `if (key.includes('./')) throw new Error('Bad relative path key')`
bad_relative_path_key(key) == Includes(key, <<".", "/">>)

\* the rpc_code the caller of an entry point sees: the catch of the entry point
\* hands the error to _translate_object_error_codes, which finds no code to
\* translate on a plain Error and returns it as it came
surfaced_error(err) == _translate_object_error_codes(err)

ArgDelimiters == {<<>>, <<"/">>, <<",">>, <<"/", "/">>}
BadKeys == {<<".", "/", "a">>, <<".", ".", "/", "a">>, <<"d", "/", ".", "/", "a">>, <<"a", ".", "/">>}
ArgKeys == MetaKeys \cup BadKeys
ArgPuts == MetaPuts \cup { [p EXCEPT !.key = key] : p \in { q \in MetaPuts : q.xattr = EmptyXattr /\ q.size = 1 }, key \in BadKeys }

\* list_objects and list_object_versions
args_list(list_versions) ==
    \E delimiter \in ArgDelimiters :
        /\ last' = IF invalid_delimiter(delimiter)
                   THEN [op |-> "list", delimiter |-> delimiter, key |-> <<>>,
                         err |-> surfaced_error(PlainError), objects |-> {}]
                   ELSE [op |-> "list", delimiter |-> delimiter, key |-> <<>>,
                         err |-> "OK", objects |-> meta_list(fs, list_versions)]
        /\ UNCHANGED <<versioning, fs, procs>>

args_list_objects == args_list(FALSE)

args_list_object_versions == args_list(TRUE)

\* read_object_md: _find_version_path calls _get_file_path inside the try
args_read_object_md ==
    \E key \in ArgKeys :
        /\ last' = IF bad_relative_path_key(key)
                   THEN [op |-> "read_object_md", delimiter |-> <<>>, key |-> key,
                         err |-> surfaced_error(PlainError), objects |-> {}]
                   ELSE [op |-> "read_object_md", delimiter |-> <<>>, key |-> key,
                         err |-> meta_read_md(fs, versioning, key).err, objects |-> {}]
        /\ UNCHANGED <<versioning, fs, procs>>

\* upload_object: _get_file_path is called before the try, its error leaves the
\* entry point untranslated
args_upload_object ==
    \E p \in ArgPuts :
        /\ fs.clock <= MaxWrites
        /\ IF bad_relative_path_key(p.key)
           THEN /\ fs' = fs
                /\ last' = [op |-> "upload_object", delimiter |-> <<>>, key |-> p.key,
                            err |-> PlainError, objects |-> {}]
           ELSE \E r \in {meta_upload(fs, versioning, p)} :
                /\ fs' = r.fs
                /\ last' = [op |-> "upload_object", delimiter |-> <<>>, key |-> p.key,
                            err |-> r.err, objects |-> {}]
        /\ UNCHANGED <<versioning, procs>>

\* delete_object: _find_version_path calls _get_file_path inside the try
args_delete_object ==
    \E key \in ArgKeys :
        /\ fs.clock <= MaxWrites
        /\ IF bad_relative_path_key(key)
           THEN /\ fs' = fs
                /\ last' = [op |-> "delete_object", delimiter |-> <<>>, key |-> key,
                            err |-> surfaced_error(PlainError), objects |-> {}]
           ELSE \E r \in {meta_delete(fs, versioning, key)} :
                /\ fs' = r.fs
                /\ last' = [op |-> "delete_object", delimiter |-> <<>>, key |-> key,
                            err |-> r.err, objects |-> {}]
        /\ UNCHANGED <<versioning, procs>>

InitArgs ==
    /\ versioning \in versioning_status_enum
    /\ fs = [EmptyMeta EXCEPT !.clock = 1]
    /\ procs = <<>>
    /\ last = [op |-> "none", delimiter |-> <<>>, key |-> <<>>, err |-> "OK", objects |-> {}]

NextArgs ==
    \/ args_list_objects
    \/ args_list_object_versions
    \/ args_read_object_md
    \/ args_upload_object
    \/ args_delete_object

SpecArgs == InitArgs /\ [][NextArgs]_vars

\* the request that has just been answered carried an argument the entry points
\* refuse
RefusedArgs == invalid_delimiter(last.delimiter) \/ bad_relative_path_key(last.key)

\* C32: a list request with a delimiter other than '' and '/', and an object request
\* with a key that holds './', fail with the surfaced error code BAD_REQUEST and
\* change no state
C32_RefusedWithBadRequest ==
    [][RefusedArgs' => (last'.err = "BAD_REQUEST" /\ fs' = fs)]_vars

\* the part of C32 the entry points keep: such a request fails and changes no state
C32_RefusedWithoutChange ==
    [][RefusedArgs' => (last'.err /= "OK" /\ fs' = fs)]_vars

\* ---------------------------------------------------------------------------
\* SpecVid: requests that name a version, in a bucket with versioning enabled. A
\* string is a sequence of tokens ('mtime', 'ino', '-', '_', '/', '..', a digit, a
\* name), a path is relative to the bucket, and fs.files is the set of the files of
\* the bucket, each [path, n] with n the mtime and inode it was created with.

MaxVidWrites == 3

VidKeys == {<<"k">>, <<"j">>}

\* the tokens version_format = /^[a-z0-9]+$/ is made of
LowerAlnum == {"mtime", "ino", "null", "k", "j", "x", "0", "1", "2", "3", "4", "5", "6", "7", "8", "9"}

\* String.prototype.split(sep) for a separator of one token
RECURSIVE SplitAt(_, _)
SplitAt(str, sep) ==
    LET i == IndexOf(str, <<sep>>)
    IN  IF i < 0 THEN <<str>> ELSE <<SliceTo(str, i)>> \o SplitAt(SliceFrom(str, i + 1), sep)

\* version_format.test(part) of the part i of v_parts: a part that is missing is
\* undefined, which test() turns into the string 'undefined'
version_format_test(v_parts, i) ==
    IF i > Len(v_parts) THEN TRUE
    ELSE v_parts[i] /= <<>> /\ \A j \in 1..Len(v_parts[i]) : v_parts[i][j] \in LowerAlnum

\* _throw_if_wrong_version_format: TRUE when BAD_REQUEST is thrown (v_parts[n] of the
\* source is v_parts[n + 1] here)
_throw_if_wrong_version_format(version_id) ==
    IF version_id = NULL_VERSION_ID THEN FALSE
    ELSE LET v_parts == SplitAt(version_id, "-")
         IN  IF v_parts[1] /= <<"mtime">> \/ Len(v_parts) < 3 \/ v_parts[3] /= <<"ino">> THEN TRUE
             ELSE ~version_format_test(v_parts, 2) \/ ~version_format_test(v_parts, 4)

\* path.normalize of the components of a relative path
RECURSIVE NormalizeParts(_, _)
NormalizeParts(parts, acc) ==
    IF parts = <<>> THEN acc
    ELSE IF Head(parts) \in {<<>>, <<".">>} THEN NormalizeParts(Tail(parts), acc)
    ELSE IF Head(parts) = <<"..">> /\ acc /= <<>> /\ acc[Len(acc)] /= <<"..">>
         THEN NormalizeParts(Tail(parts), SubSeq(acc, 1, Len(acc) - 1))
    ELSE NormalizeParts(Tail(parts), Append(acc, Head(parts)))

RECURSIVE JoinParts(_)
JoinParts(parts) ==
    IF parts = <<>> THEN <<>>
    ELSE IF Len(parts) = 1 THEN parts[1]
    ELSE parts[1] \o Slash \o JoinParts(Tail(parts))

\* path.normalize, for a path below the bucket
path_normalize(path) == JoinParts(NormalizeParts(SplitAt(path, "/"), <<>>))

VERSIONS_DIR == <<".versions">>

\* _get_version_path of a key of the bucket root (path.dirname(key) is '.'):
\* path.normalize(path.join(bucket_path, '.', '.versions', key + '_' + version_id))
vid_get_version_path(key, version_id) ==
    path_normalize(<<".">> \o Slash \o VERSIONS_DIR \o Slash \o key \o <<"_">> \o version_id)

\* the id of the version created at the instant n
VidOf(n) == <<"mtime", "-", NumStr(n), "-", "ino", "-", NumStr(n)>>

FileAt(files, path) == { f \in files : f.path = path }

\* _find_version_path once the format is accepted: the latest when it carries the
\* id, else the path below .versions/
vid_find_version_path(files, key, version_id) ==
    IF \E f \in FileAt(files, key) : VidOf(f.n) = version_id THEN key
    ELSE vid_get_version_path(key, version_id)

\* _check_path_in_bucket_boundaries of a normalized path relative to the bucket
vid_in_bucket(path) == path = <<>> \/ path[1] /= ".."

\* find_max_version_past: the newest file of .versions/ that is a version of key
vid_find_max_version_past(files, key) ==
    LET past == { f \in files : \E n \in 1..(MaxVidWrites + 1) : f.n = n /\ f.path = vid_get_version_path(key, VidOf(n)) }
    IN  { f \in past : \A g \in past : g.n <= f.n }

\* _promote_version_to_latest after the latest was removed
vid_promote(files, key) ==
    IF FileAt(files, key) /= {} THEN files
    ELSE (files \ vid_find_max_version_past(files, key))
         \cup { [path |-> key, n |-> f.n] : f \in vid_find_max_version_past(files, key) }

\* the outcome of a request: the error, and the path that was stat'ed or unlinked
\* (NoPath when the request did not get that far)
VidReturned(op, key, version_id, err, path) ==
    [op |-> op, key |-> key, version_id |-> version_id, err |-> err, path |-> path]

\* the version ids the requests carry: those of the versions, null, and some that are
\* not of the form mtime-<base36>-ino-<base36>
GoodVids == { VidOf(n) : n \in 1..MaxVidWrites } \cup {NULL_VERSION_ID}
OddVids ==
    { <<"x">>, <<"mtime", "-", "1">>, <<"mtime", "-", "1", "-", "ino">>,
      <<"mtime", "-", "X", "-", "ino", "-", "1">>,
      <<"mtime", "-", "1", "-", "ino", "-", "1", "-", "x">>,
      <<"mtime", "-", "1", "-", "ino", "-", "1", "-", "/", "..", "/", "..", "/", "j">>,
      <<"mtime", "-", "1", "-", "ino", "-", "1", "-", "/", "..", "/", "j", "_", "mtime", "-", "2", "-", "ino", "-", "2">>,
      <<"mtime", "-", "1", "-", "ino", "-", "1", "-", "/", "..", "/", "..", "/", "..", "/", "x">> }
VidRequests == GoodVids \cup OddVids

InitVid ==
    /\ versioning = VER_ENABLED
    /\ fs = [files |-> {}, clock |-> 1]
    /\ procs = <<>>
    /\ last = VidReturned("none", <<>>, <<>>, "OK", NoPath)

\* upload_object with versioning enabled: the latest moves to .versions/ under its id
vid_upload_object ==
    \E key \in VidKeys :
        /\ fs.clock <= MaxVidWrites
        /\ fs' = [files |-> { f \in fs.files : f.path /= key }
                            \cup { [path |-> vid_get_version_path(key, VidOf(f.n)), n |-> f.n] : f \in FileAt(fs.files, key) }
                            \cup { [path |-> key, n |-> fs.clock] },
                  clock |-> fs.clock + 1]
        /\ last' = VidReturned("upload_object", key, <<>>, "OK", NoPath)
        /\ UNCHANGED <<versioning, procs>>

\* read_object_md / read_object_stream with a version id
vid_read_object_md ==
    \E key \in VidKeys, version_id \in VidRequests :
        /\ last' = IF _throw_if_wrong_version_format(version_id)
                   THEN VidReturned("read_object_md", key, version_id, "BAD_REQUEST", NoPath)
                   ELSE LET file_path == vid_find_version_path(fs.files, key, version_id)
                        IN  IF ~vid_in_bucket(file_path)
                            THEN VidReturned("read_object_md", key, version_id, "UNAUTHORIZED", NoPath)
                            ELSE IF FileAt(fs.files, file_path) = {}
                            THEN VidReturned("read_object_md", key, version_id, "NO_SUCH_OBJECT", NoPath)
                            ELSE VidReturned("read_object_md", key, version_id, "OK", file_path)
        /\ UNCHANGED <<versioning, fs, procs>>

\* delete_object with a version id: _delete_version_id
vid_delete_object ==
    \E key \in VidKeys, version_id \in VidRequests :
        IF _throw_if_wrong_version_format(version_id)
        THEN /\ last' = VidReturned("delete_object", key, version_id, "BAD_REQUEST", NoPath)
             /\ UNCHANGED <<versioning, fs, procs>>
        ELSE LET file_path == vid_find_version_path(fs.files, key, version_id)
             IN  IF ~vid_in_bucket(file_path)
                 THEN /\ last' = VidReturned("delete_object", key, version_id, "UNAUTHORIZED", NoPath)
                      /\ UNCHANGED <<versioning, fs, procs>>
                 ELSE IF FileAt(fs.files, file_path) = {}
                 THEN /\ last' = VidReturned("delete_object", key, version_id, "OK", NoPath)
                      /\ UNCHANGED <<versioning, fs, procs>>
                 ELSE /\ fs' = [fs EXCEPT !.files =
                                    IF file_path = key THEN vid_promote(@ \ FileAt(@, file_path), key)
                                    ELSE @ \ FileAt(@, file_path)]
                      /\ last' = VidReturned("delete_object", key, version_id, "OK", file_path)
                      /\ UNCHANGED <<versioning, procs>>

NextVid ==
    \/ vid_upload_object
    \/ vid_read_object_md
    \/ vid_delete_object

SpecVid == InitVid /\ [][NextVid]_vars

\* a version id of the form mtime-<lowercase base36>-ino-<lowercase base36>, with
\* nothing after the second field
FieldOk(field) == field /= <<>> /\ \A i \in 1..Len(field) : field[i] \in LowerAlnum
ExactVersionForm(version_id) ==
    \E i \in 3..(Len(version_id) - 4) :
        /\ SubSeq(version_id, 1, 2) = <<"mtime", "-">>
        /\ FieldOk(SubSeq(version_id, 3, i))
        /\ SubSeq(version_id, i + 1, i + 3) = <<"-", "ino", "-">>
        /\ FieldOk(SubSeq(version_id, i + 4, Len(version_id)))

\* the two files a version id of a key may address
AddressedByVersion(key, version_id) ==
    {key, <<".versions", "/">> \o key \o <<"_">> \o version_id}

\* C33: a version id that is neither null nor exactly mtime-<base36>-ino-<base36> is
\* refused with BAD_REQUEST, and the file a request with a version id reads or
\* removes is <dir(key)>/.versions/<basename(key)>_<id> or the latest of the key
C33_VersionIdAddressesOwnKey ==
    last.op \in {"read_object_md", "delete_object"} =>
        /\ (last.version_id /= NULL_VERSION_ID /\ ~ExactVersionForm(last.version_id))
                => last.err = "BAD_REQUEST"
        /\ last.path /= NoPath => last.path \in AddressedByVersion(last.key, last.version_id)

\* what _throw_if_wrong_version_format does refuse: an id whose first four
\* dash-separated parts are not mtime, <base36>, ino, <base36>
C33_FirstFieldsChecked ==
    (last.op \in {"read_object_md", "delete_object"} /\ last.err /= "BAD_REQUEST"
        /\ last.version_id /= NULL_VERSION_ID)
    => /\ SubSeq(last.version_id, 1, 2) = <<"mtime", "-">>
       /\ \E i \in 3..(Len(last.version_id) - 2) : SubSeq(last.version_id, i + 1, i + 1) = <<"-">>
                /\ FieldOk(SubSeq(last.version_id, 3, i))
                /\ SubSeq(last.version_id, i + 2, i + 2) = <<"ino">>

\* a delete_object of the key k that removed the latest of the key j
C33_OtherKeyRemoved ==
    /\ last.op = "delete_object" /\ last.key = <<"k">> /\ last.path = <<"j">>
    /\ FileAt(fs.files, <<"j">>) = {}

\* ---------------------------------------------------------------------------
\* SpecCache: list_objects between uploads and deletes that have completed, with the
\* directory cache of SpecScan. Every request runs to its end before the next one
\* begins. Versioning is disabled.

\* get_with_cache of process_dir for one directory: a directory that is gone has no
\* entries, an item that validates is used, else the directory is loaded
CachedDir(tree, cache, dir) ==
    IF ~DirExists(tree, dir) THEN Gone
    ELSE IF dir_cache_validate(cache[dir], tree[dir]) THEN cache[dir]
    ELSE tree[dir]

\* the directories as the listing sees them: d/ is read when the root lists it
CachedView(tree, cache) ==
    [d \in DirKeys |->
        IF d = ScanRoot THEN CachedDir(tree, cache, ScanRoot)
        ELSE IF CachedDir(tree, cache, ScanRoot).dirs /= {} THEN CachedDir(tree, cache, ScanDir)
        ELSE Gone]

\* the cache after the listing: an item for every directory that was read, none for
\* a directory check_access found gone
CacheAfter(tree, cache) ==
    [d \in DirKeys |->
        IF d = ScanDir /\ CachedDir(tree, cache, ScanRoot).dirs = {} THEN cache[d]
        ELSE IF ~DirExists(tree, d) THEN NoItem
        ELSE CachedView(tree, cache)[d]]

InitCache ==
    /\ versioning = VER_DISABLED
    /\ fs \in { [tree |-> t, cache |-> [d \in DirKeys |-> NoItem], clock |-> 0] :
                t \in { x \in ScanTrees : DirExists(x, ScanDir) =>
                                            x[ScanDir].files /= {} \/ x[ScanDir].dir_content } }
    /\ procs = <<>>
    /\ last = [op |-> "none"]

cache_upload_object ==
    \E key \in ScanKeys :
        /\ fs.clock < MaxClock
        /\ fs' = [fs EXCEPT !.tree = ScanUpload(fs.tree, key, fs.clock + 1), !.clock = fs.clock + 1]
        /\ last' = [op |-> "upload_object", key |-> key]
        /\ UNCHANGED <<versioning, procs>>

cache_delete_object ==
    \E key \in ScanKeys :
        /\ fs.clock < MaxClock
        /\ fs' = [fs EXCEPT !.tree = _delete_single_object_scan(fs.tree, key, fs.clock + 1),
                            !.clock = fs.clock + 1]
        /\ last' = [op |-> "delete_object", key |-> key]
        /\ UNCHANGED <<versioning, procs>>

cache_list_objects ==
    \E p \in ScanParams :
        /\ fs' = [fs EXCEPT !.cache = CacheAfter(fs.tree, fs.cache)]
        /\ last' = list_results(fs.tree, p, "list_objects",
                                process_dir(CachedView(fs.tree, fs.cache), p,
                                            [results |-> <<>>, is_truncated |-> FALSE], ScanRoot))
        /\ UNCHANGED <<versioning, procs>>

NextCache ==
    \/ cache_upload_object
    \/ cache_delete_object
    \/ cache_list_objects

SpecCache == InitCache /\ [][NextCache]_vars

\* C34: the listing that follows completed uploads and deletes does not fail and
\* reflects them, also when a request only set or cleared dir_content of a directory
\* that exists: a list_objects of the whole bucket returns the keys that exist
C34_ListingUpToDate ==
    (last.op = "list_objects" /\ last.params.key_marker = NoMarker) =>
        /\ last.err = "OK"
        /\ { last.objects[i].key : i \in 1..Len(last.objects) } = ExistingKeys(fs.tree)

\* what the cache does keep up with: the files of the bucket
C34_FilesUpToDate ==
    (last.op = "list_objects" /\ last.params.key_marker = NoMarker) =>
        /\ last.err = "OK"
        /\ { last.objects[i].key : i \in 1..Len(last.objects) } \ {ScanDir}
                = ExistingKeys(fs.tree) \ {ScanDir}

\* ---------------------------------------------------------------------------
\* SpecPage: a client pages through list_objects of a bucket nobody writes to. It
\* sends the next_marker of every truncated reply as the key_marker of the next
\* request, until a reply is not truncated. The root holds files whose names begin
\* with the name of the directory d.

MaxPages == 7

PageRootNames == {<<"a">>, <<"d", "+">>, <<"d", "-", "b">>}
PageSubNames == {<<"a">>, <<"b">>}
PageTrees ==
    { [d \in DirKeys |-> IF d = <<>>
                         THEN [files |-> rf, versions |-> {}, dirs |-> IF sf = {} THEN {} ELSE {<<"d">>},
                               dir_content |-> FALSE]
                         ELSE [files |-> sf, versions |-> {}, dirs |-> {}, dir_content |-> FALSE]] :
        rf \in SUBSET PageRootNames, sf \in SUBSET PageSubNames }

PageParams ==
    { [list_versions |-> FALSE, prefix |-> prefix, delimiter |-> delimiter,
       key_marker |-> NoMarker, version_id_marker |-> NoMarker, limit |-> limit] :
        prefix \in {<<>>, <<"d">>, <<"d", "/">>}, delimiter \in {<<>>, Slash},
        limit \in (1..MaxLimit) \cup {DefaultLimit} }

\* the client: the request it sends next and what the replies held so far
Pager(p, pc, keys, prefixes, pages) ==
    [op |-> "list_objects", params |-> p, pc |-> pc, keys |-> keys, prefixes |-> prefixes,
     pages |-> pages]

InitPage ==
    /\ versioning = VER_DISABLED
    /\ fs \in PageTrees
    /\ procs \in { <<Pager(p, "page", <<>>, <<>>, 0)>> : p \in PageParams }
    /\ last = [op |-> "none"]

\* one list_objects request of the client and what it does with the reply
page_list_objects ==
    \E r \in {_list_objects(fs, procs[1].params, "list_objects")} :
        /\ procs[1].pc = "page"
        /\ procs[1].pages < MaxPages
        /\ last' = r
        /\ procs' = <<Pager([procs[1].params EXCEPT !.key_marker = r.next_marker],
                            IF r.err = "OK" /\ r.is_truncated THEN "page" ELSE "done",
                            procs[1].keys \o [i \in 1..Len(r.objects) |-> r.objects[i].key],
                            procs[1].prefixes \o r.common_prefixes,
                            procs[1].pages + 1)>>
        /\ UNCHANGED <<versioning, fs>>

\* the client asks again from the start
page_restart ==
    \E p \in PageParams :
        /\ procs[1].pc = "done"
        /\ procs' = <<Pager(p, "page", <<>>, <<>>, 0)>>
        /\ UNCHANGED <<versioning, fs, last>>

NextPage ==
    \/ page_list_objects
    \/ page_restart

SpecPage == InitPage /\ [][NextPage]_vars

\* the keys of the bucket
BucketKeys(tree) == UNION { { d \o name : name \in tree[d].files } : d \in DirKeys }

\* the keys a request is about: those that begin with the prefix
Matching(tree, p) == { key \in BucketKeys(tree) : StartsWith(key, p.prefix) }

\* the common prefix a key is rolled up into: the key up to the first delimiter after
\* the prefix, or none
RolledUp(key, p) ==
    IF p.delimiter = <<>> THEN <<>>
    ELSE LET i == IndexOf(SliceFrom(key, Len(p.prefix)), p.delimiter)
         IN  IF i < 0 THEN <<>> ELSE SliceTo(key, Len(p.prefix) + i + 1)

MatchingObjects(tree, p) == { key \in Matching(tree, p) : RolledUp(key, p) = <<>> }
MatchingPrefixes(tree, p) == { RolledUp(key, p) : key \in Matching(tree, p) } \ {<<>>}

NoRepeat(seq) == \A i \in 1..Len(seq) : \A j \in 1..Len(seq) : seq[i] = seq[j] => i = j
Range(seq) == { seq[i] : i \in 1..Len(seq) }

\* C35: paging list_objects of a quiescent bucket by next_marker until a reply is
\* not truncated returns every matching key and common prefix exactly once
C35_PagingExactlyOnce ==
    procs[1].pc = "done" =>
        /\ last.err = "OK"
        /\ NoRepeat(procs[1].keys) /\ NoRepeat(procs[1].prefixes)
        /\ Range(procs[1].keys) = MatchingObjects(fs, procs[1].params)
        /\ Range(procs[1].prefixes) = MatchingPrefixes(fs, procs[1].params)

\* the same for a bucket in which no file name of the root begins with the name of
\* the directory
C35_PagingPlainNames ==
    (procs[1].pc = "done" /\ fs[<<>>].files \subseteq {<<"a">>}) =>
        /\ last.err = "OK"
        /\ NoRepeat(procs[1].keys) /\ NoRepeat(procs[1].prefixes)
        /\ Range(procs[1].keys) = MatchingObjects(fs, procs[1].params)
        /\ Range(procs[1].prefixes) = MatchingPrefixes(fs, procs[1].params)

\* ---------------------------------------------------------------------------
\* SpecOpendir: the two ways process_dir reads the directory a listing starts from.
\* A directory below the cache cap is served from sorted_entries of the cache item;
\* a larger one has no sorted_entries and is read entry by entry with opendir, in
\* the order the file system hands the entries out. The directories below the
\* first one are small.

\* the orders opendir hands the entries out in: by name, and the reverse
ReverseSeq(seq) == [i \in 1..Len(seq) |-> seq[Len(seq) + 1 - i]]
OpendirOrders(entries) == {SortByName(entries), ReverseSeq(SortByName(entries))}

\* the loop over dir_handle.read: every entry goes through process_entry, the loop
\* does not end when the listing is truncated
RECURSIVE stream_entries(_, _, _, _, _, _, _, _)
stream_entries(tree, p, st, dir_key, prefix_ent, marker_curr, entries, i) ==
    IF i > Len(entries) THEN st
    ELSE stream_entries(tree, p,
                        process_entry(tree, p, st, dir_key, prefix_ent, marker_curr, entries[i]),
                        dir_key, prefix_ent, marker_curr, entries, i + 1)

\* process_dir of a directory whose cache item has no sorted_entries: opendir reads
\* the directory itself, not its .versions/
process_dir_stream(tree, p, st, dir_key, entries) ==
    IF _is_hidden_version_path(dir_key) THEN st
    ELSE IF ~StartsWith(dir_key, SliceTo(p.prefix, Len(dir_key))) THEN st
    ELSE IF StrLess(dir_key, SliceTo(p.key_marker, Len(dir_key))) THEN st
    ELSE IF dir_key \notin DirKeys THEN st
    ELSE stream_entries(tree, p, insert_dir_object(tree, p, st, dir_key), dir_key,
            SliceFrom(p.prefix, Len(dir_key)),
            IF StrLess(SliceTo(p.key_marker, Len(dir_key)), dir_key) THEN <<>>
            ELSE SliceFrom(p.key_marker, Len(dir_key)),
            entries, 1)

\* the directory _list_objects starts from
prefix_dir_key(p) == SliceTo(p.prefix, LastIndexOf(p.prefix, Slash) + 1)

\* _list_objects when the directory it starts from is above the cache cap
_list_objects_stream(tree, p, op, entries) ==
    list_results(tree, p, op,
        process_dir_stream(tree, p, [results |-> <<>>, is_truncated |-> FALSE], prefix_dir_key(p), entries))

\* the outcome of the same request served both ways
BothWays(cached, streamed) == [op |-> cached.op, params |-> cached.params, cached |-> cached, streamed |-> streamed]

\* the buckets of SpecOpendir
OpendirTrees ==
    { t \in ListTrees : t[<<>>].files \subseteq {<<"-">>, <<"a">>}
                        /\ t[<<>>].versions \subseteq {VersionName(<<"a">>, 1)} }

\* one request has been received
InitOpendir ==
    /\ versioning = VER_ENABLED
    /\ fs \in OpendirTrees
    /\ procs \in { <<ListRequest(p)>> : p \in ListParams(FALSE) \cup ListParams(TRUE) }
    /\ last = [op |-> "none"]

\* the request is served from the cache item and through opendir
opendir_list(op) ==
    /\ procs[1].op = op
    /\ \E entries \in OpendirOrders(IF prefix_dir_key(procs[1].params) \in DirKeys
                                     THEN ReadDir(fs, prefix_dir_key(procs[1].params)) ELSE {}) :
        /\ last' = BothWays(_list_objects(fs, procs[1].params, op),
                            _list_objects_stream(fs, procs[1].params, op, entries))
        /\ procs' = <<Idle>>
        /\ UNCHANGED <<versioning, fs>>

opendir_list_objects == opendir_list("list_objects")

opendir_list_object_versions == opendir_list("list_object_versions")

NextOpendir ==
    \/ opendir_list_objects
    \/ opendir_list_object_versions

SpecOpendir == InitOpendir /\ [][NextOpendir]_vars

\* C36: for the same directory contents and parameters the listing read through
\* opendir returns the objects, common_prefixes, is_truncated and next_marker of the
\* listing served from the sorted cached entries
C36_StreamingSameAsCached ==
    last.op \in {"list_objects", "list_object_versions"} => last.streamed = last.cached

\* the same for a listing without a key_marker and with the default limit, of a
\* bucket without .versions/
C36_StreamingSameFromStart ==
    (last.op \in {"list_objects", "list_object_versions"} /\ last.params.key_marker = NoMarker
        /\ last.params.limit = DefaultLimit /\ \A d \in DirKeys : fs[d].versions = {})
    => last.streamed = last.cached

\* ---------------------------------------------------------------------------
\* Concurrent uploads to one key with versioning enabled (SpecPublish)

\* the files stored for a key: its latest and its entries of .versions/
StoredFiles(tree, key) ==
    (IF tree.latest[key] = NoFile THEN {} ELSE {tree.latest[key]})
    \cup { e.f : e \in { x \in tree.vers[key.dir] : x.base = key.base } }

\* the bytes and user xattrs stored for a key, by inode
StoredObjects(tree, key) == { [ino |-> f.ino, data |-> f.data, md |-> f.md] : f \in StoredFiles(tree, key) }

\* the request of slot i returns in this step
Returns(i) == InFlight(i) /\ procs'[i] = Idle

\* no object stored for a key is lost or overwritten by a step taken with versioning
\* enabled
C37_NothingLostStep ==
    versioning = VER_ENABLED =>
        \A key \in Keys : StoredObjects(fs, key) \subseteq StoredObjects(fs', key)

\* the upload that returns with success has its object stored for its key
C37_SuccessStoredStep ==
    versioning = VER_ENABLED =>
        \A i \in 1..MaxProcs :
            (Returns(i) /\ last'.err = "OK")
                => procs[i].tmp \in { o.ino : o \in StoredObjects(fs', procs[i].key) }

\* the upload that returns with an error leaves no trace: neither an object stored
\* for its key nor its staging file
C37_FailureTracelessStep ==
    versioning = VER_ENABLED =>
        \A i \in 1..MaxProcs :
            (Returns(i) /\ last'.err /= "OK")
                => /\ procs[i].tmp \notin { o.ino : o \in StoredObjects(fs', procs[i].key) }
                   /\ procs[i].tmp \notin { f.ino : f \in fs'.uploads }

\* C37: with versioning enabled, of the upload_object requests that run together on
\* a key each one completes or fails leaving no trace, the object of every request
\* that returned success is the latest of the key or a version in .versions/, and no
\* version stored before is lost or overwritten
C37_ConcurrentUploads ==
    [][C37_NothingLostStep /\ C37_SuccessStoredStep /\ C37_FailureTracelessStep]_vars

\* the part of C37 about the objects: none is lost, and a success is stored
C37_ObjectsKept == [][C37_NothingLostStep /\ C37_SuccessStoredStep]_vars

\* ---------------------------------------------------------------------------
\* Other keys across a delete (SpecDirs)

\* the object of a key as a listing and a read find it: a file key is an object when
\* its file exists; a directory key is one when its directory carries dir_content,
\* and its body is the file .folder (none: the empty directory object)
NestedObject(tree, key) ==
    IF IsDirKey(key)
    THEN [exists |-> Dirname(nested_file_path(key)) \in tree.objs,
          body |-> nested_file_path(key) \in tree.files]
    ELSE [exists |-> nested_file_path(key) \in tree.files, body |-> TRUE]

C38_Step ==
    last'.op = "delete_object" =>
        \A key \in NestedKeys \ {last'.key} :
            NestedObject(fs, key).exists => NestedObject(fs', key) = NestedObject(fs, key)

\* C38: delete_object(K) removes or alters no object other than K: every other key
\* that was an object before the delete is one after it with the same body, also an
\* empty directory object whose directory is an ancestor of K and becomes empty
C38_DeleteLeavesOthers == [][C38_Step]_vars

\* the same for the other keys that are files or directory objects with a .folder
C38_DeleteLeavesFiles ==
    [][last'.op = "delete_object" =>
        \A key \in NestedKeys \ {last'.key} :
            (NestedObject(fs, key).exists /\ nested_file_path(key) \in fs.files)
                => NestedObject(fs', key) = NestedObject(fs, key)]_vars

\* ---------------------------------------------------------------------------
\* SpecAbort: multipart uploads addressed by the obj_id of the request, next to the
\* uploads of SpecDirs. Versioning is disabled. The tree is that of SpecDirs; paths
\* are absolute and normalized.

\* get_bucket_tmpdir()
get_bucket_tmpdir == <<".tmp">>

\* path.normalize of an absolute path
abs_normalize(path) == Slash \o path_normalize(path)

\* the scratch area of the multipart uploads of the bucket
MpuArea == bucket_path \o Slash \o get_bucket_tmpdir \o Slash \o <<"multipart-uploads">>

\* _mpu_path: path.join(bucket_path, get_bucket_tmpdir(), 'multipart-uploads', obj_id)
_mpu_path(obj_id) == abs_normalize(MpuArea \o Slash \o obj_id)

\* the obj_id create_object_upload hands out (a uuid), and those a request may carry
NewObjId == <<"u">>
ObjIds == {NewObjId, <<"..", "/", "..", "/", "d">>, <<"..", "/", "..">>, <<"..", "/", "..", "/", "d", "/", "d">>}

\* _load_multipart: stat of mpu_path; NO_SUCH_UPLOAD when nothing is there
_load_multipart(tree, obj_id) ==
    IF _mpu_path(obj_id) \in tree.dirs \cup tree.files THEN "OK" ELSE "NO_SUCH_UPLOAD"

\* a path is dir or lies below it
Below(path, dir) == path = dir \/ StartsWith(path, dir \o Slash)

\* _folder_delete(dir): every entry below dir is unlinked or removed, then dir
_folder_delete(tree, dir) ==
    [files |-> { f \in tree.files : ~Below(f, dir) },
     dirs |-> { d \in tree.dirs : ~Below(d, dir) },
     objs |-> { d \in tree.objs : ~Below(d, dir) }]

\* create_object_upload: _create_path(mpu_path) and the file create_object_upload
abort_create_object_upload ==
    /\ fs' = [fs EXCEPT !.dirs = @ \cup PathDirs(_mpu_path(NewObjId) \o Slash \o <<"create_object_upload">>),
                        !.files = @ \cup {_mpu_path(NewObjId) \o Slash \o <<"create_object_upload">>}]
    /\ last' = [op |-> "create_object_upload", key |-> NewObjId, err |-> "OK", removed |-> {}]
    /\ UNCHANGED <<versioning, procs>>

\* upload_multipart: the part is written to path.join(mpu_path, 'part-<num>')
abort_upload_multipart ==
    \E obj_id \in ObjIds, num \in {<<"part-1">>} :
        /\ IF _load_multipart(fs, obj_id) /= "OK"
           THEN /\ fs' = fs
                /\ last' = [op |-> "upload_multipart", key |-> obj_id, err |-> "NO_SUCH_UPLOAD", removed |-> {}]
           ELSE IF _mpu_path(obj_id) \notin fs.dirs
           THEN /\ fs' = fs
                /\ last' = [op |-> "upload_multipart", key |-> obj_id, err |-> "ENOTDIR", removed |-> {}]
           ELSE /\ fs' = [fs EXCEPT !.files = @ \cup {_mpu_path(obj_id) \o Slash \o num}]
                /\ last' = [op |-> "upload_multipart", key |-> obj_id, err |-> "OK", removed |-> {}]
        /\ UNCHANGED <<versioning, procs>>

\* abort_object_upload: _load_multipart, then _folder_delete(mpu_path)
abort_object_upload ==
    \E obj_id \in ObjIds :
        /\ IF _load_multipart(fs, obj_id) /= "OK"
           THEN /\ fs' = fs
                /\ last' = [op |-> "abort_object_upload", key |-> obj_id, err |-> "NO_SUCH_UPLOAD", removed |-> {}]
           ELSE IF _mpu_path(obj_id) \notin fs.dirs
           THEN /\ fs' = fs
                /\ last' = [op |-> "abort_object_upload", key |-> obj_id, err |-> "ENOTDIR", removed |-> {}]
           ELSE /\ fs' = _folder_delete(fs, _mpu_path(obj_id))
                /\ last' = [op |-> "abort_object_upload", key |-> obj_id, err |-> "OK",
                            removed |-> fs.dirs \ _folder_delete(fs, _mpu_path(obj_id)).dirs]
        /\ UNCHANGED <<versioning, procs>>

\* upload_object of SpecDirs
abort_upload_object ==
    \E key \in NestedKeys, size \in {0, 1} :
        /\ fs' = nested_upload(fs, key, size)
        /\ last' = [op |-> "upload_object", key |-> key, err |-> "OK", removed |-> {}]
        /\ UNCHANGED <<versioning, procs>>

NextAbort ==
    \/ abort_create_object_upload
    \/ abort_upload_multipart
    \/ abort_object_upload
    \/ abort_upload_object

SpecAbort == InitDirs /\ [][NextAbort]_vars

\* the paths a step created or removed
Touched == ((fs.files \cup fs.dirs) \ (fs'.files \cup fs'.dirs))
           \cup ((fs'.files \cup fs'.dirs) \ (fs.files \cup fs.dirs))

\* C39: for every obj_id of the request, upload_multipart and abort_object_upload
\* write and delete only paths below <bucket>/<tmpdir>/multipart-uploads/;
\* abort_object_upload never deletes a directory outside that area
C39_MpuStaysInArea ==
    [][last'.op \in {"upload_multipart", "abort_object_upload"}
        => \A path \in Touched : StartsWith(path, MpuArea \o Slash)]_vars

\* the same for the obj_id that create_object_upload handed out
C39_OwnIdStaysInArea ==
    [][(last'.op \in {"upload_multipart", "abort_object_upload"} /\ last'.key = NewObjId)
        => \A path \in Touched : StartsWith(path, MpuArea \o Slash)]_vars

\* an abort_object_upload that removed the directory d of the bucket and the object
\* stored in it
C39_AbortRemovedDirectory ==
    /\ last.op = "abort_object_upload" /\ last.err = "OK"
    /\ bucket_path \o Slash \o <<"d">> \in last.removed
    /\ fs.files = {}

------------------------------------------------------------------------------
(* SpecBatch: delete_multiple_objects over requests of up to MaxBatchLen *)
(* entries, so that the entries of one key can be separated by an entry  *)
(* of another key                                                        *)

MaxBatchLen == 3

LongBatches(tree) == UNION { [1..n -> Objs(tree)] : n \in 1..MaxBatchLen }

\* the requests explored: a batch follows a request of another kind
batch_delete_multiple_objects ==
    /\ last.op /= "delete_multiple_objects"
    /\ \E objects \in LongBatches(fs) :
        /\ versioning /= VER_DISABLED =>
             fs.clock + Len(SelectSeq(objects, LAMBDA o : o.version_id = NoXattr)) <= MaxFiles
        /\ \E r \in {delete_multiple_objects_run(fs, versioning, objects)} :
               /\ fs' = r.fs
               /\ last' = Returned("delete_multiple_objects", objects, r.res, r.err)
        /\ UNCHANGED <<versioning, procs>>

NextBatch == set_bucket_versioning \/ upload_object \/ batch_delete_multiple_objects

SpecBatch == Init /\ [][NextBatch]_vars

\* the entries of every key stand together in the request
KeysContiguous(objects) ==
    \A i, j, k \in 1..Len(objects) :
        (i < j /\ j < k /\ objects[i].key = objects[k].key) => objects[j].key = objects[i].key

\* a result that can be the answer to the entry: with versioning on, a delete
\* marker is reported created exactly for an entry that names no version
Answers(mode, o, r) ==
    (mode /= VER_DISABLED /\ r.err = "OK")
    => (r.created_delete_marker <=> o.version_id = NoXattr)

\* C40: delete_multiple_objects returns exactly one result per requested object, in
\* the order of the request, in every versioning mode, also when the entries of
\* different keys are interleaved
C40_OneResultPerObjectInOrder ==
    (last.op = "delete_multiple_objects" /\ last.err = "OK")
    => /\ Len(last.res) = Len(last.objects)
       /\ \A i \in 1..Len(last.objects) : Answers(versioning, last.objects[i], last.res[i])

\* the part of C40 that holds: one result per requested object
C40_OneResultPerObject ==
    (last.op = "delete_multiple_objects" /\ last.err = "OK")
    => Len(last.res) = Len(last.objects)

\* the part of C40 that holds: the results are in the order of the request when the
\* entries of every key stand together
C40_InOrderWhenContiguous ==
    (last.op = "delete_multiple_objects" /\ last.err = "OK" /\ KeysContiguous(last.objects))
    => \A i \in 1..Len(last.objects) : Answers(versioning, last.objects[i], last.res[i])

\* a returned request in which an entry of another key stands between two entries
\* of one key
C40_InterleavedRequest ==
    /\ last.op = "delete_multiple_objects"
    /\ last.err = "OK"
    /\ versioning /= VER_DISABLED
    /\ ~KeysContiguous(last.objects)

====
